---------------------------- MODULE Spec2Model ----------------------------
(***************************************************************************)
(* A model of the f3 Forth virtual machine: the cell arena with its three  *)
(* regions, the string arena, the dictionary, the outer interpreter        *)
(* (eval / $compile / $interpret), the inner interpreter (i_definition)    *)
(* and the REPL with its abort / panic handling.                           *)
(*                                                                         *)
(* Every Rust method is an operator from a machine record to a machine     *)
(* record, written in the order of the statements of the method.  A Rust   *)
(* panic is the field panic: once it is set no later statement changes the *)
(* machine, which is what unwinding does.  The loop of i_definition and    *)
(* the loops of f_quit and f_eval are the actions of the state machine.    *)
(*                                                                         *)
(* Cells are 64 bit in the program.  TLC integers are 32 bit, so the two   *)
(* flag bits and the address mask keep their order (tags < mask < builtin  *)
(* flag < immediate flag) at lower bit positions, and usize is 31 bit.     *)
(***************************************************************************)
EXTENDS Integers, Sequences, FiniteSets, TLC

\* ------------------------------------------------------------------------
\* Sizes.  The program uses 10000 cells, 10000 bytes and 132 byte buffers;
\* the model keeps the layout rules and scales the sizes.
DATA_SIZE == 320
STRING_SIZE == 300
BUF_SIZE == 32
\* the number of lines the REPL reads in one behaviour
MaxLines == 3
\* nested host activations of i_definition (execute inside a definition)
MaxHostDepth == 2

ALLOC_START == DATA_SIZE \div 2
STACK_START == ALLOC_START - 1
RET_START == DATA_SIZE - 1
WORD_START == 0

TIB_START == 0
PAD_START == TIB_START + BUF_SIZE
TMP_START == PAD_START + BUF_SIZE
STR_START == TMP_START + BUF_SIZE

TAG_BUILTIN == 100000
TAG_VARIABLE == 100001
TAG_CONSTANT == 100002
TAG_LITERAL == 100003
TAG_STRLIT == 100004
TAG_DEFINITION == 100005
TAG_BRANCH == 100006
TAG_BRANCH0 == 100007
TAG_ABORT == 100008
TAG_EXIT == 100009
TAG_BREAK == 100010
TAG_EXEC == 100011

TRUE_F == -1
FALSE_F == 0
IMMEDIATE_FLAG == 1073741824
BUILTIN_FLAG == 536870912
ADDRESS_MASK == 16777215
\* the largest usize of the model (2^31 - 1)
USIZE_MAX == 2147483647
SPACE == 32

\* ------------------------------------------------------------------------
\* Names, as the bytes the string arena holds.
W_s_here == <<115, 45, 104, 101, 114, 101>>
W_here == <<104, 101, 114, 101>>
W_context == <<99, 111, 110, 116, 101, 120, 116>>
W_pad == <<112, 97, 100>>
W_base == <<98, 97, 115, 101>>
W_tmp == <<116, 109, 112>>
W_tib == <<39, 116, 105, 98>>
W_ntib == <<35, 116, 105, 98>>
W_to_in == <<62, 105, 110>>
W_hld == <<104, 108, 100>>
W_last == <<108, 97, 115, 116>>
W_teval == <<39, 101, 118, 97, 108>>
W_abortq == <<97, 98, 111, 114, 116, 63>>
W_state == <<115, 116, 97, 116, 101>>
W_stepper == <<115, 116, 101, 112, 112, 101, 114>>
W_stepper_depth == <<115, 116, 101, 112, 112, 101, 114, 45, 100, 101, 112, 116, 104>>
W_plus == <<43>>
W_times == <<42>>
W_colon == <<58>>
W_bye == <<98, 121, 101>>
W_dup == <<100, 117, 112>>
W_drop == <<100, 114, 111, 112>>
W_fetch == <<64>>
W_store == <<33>>
W_j == <<106>>
W_abort == <<97, 98, 111, 114, 116>>
W_to_r == <<62, 114>>
W_r_from == <<114, 62>>
W_immediate == <<105, 109, 109, 101, 100, 105, 97, 116, 101>>
W_execute == <<101, 120, 101, 99, 117, 116, 101>>
W_create == <<99, 114, 101, 97, 116, 101>>
W_comma == <<44>>
W_semicolon == <<59>>
\* names a user types
W_sq == <<115, 113>>
W_ab == <<97, 98>>
W_g == <<103>>
W_h == <<104>>
W_foo == <<102, 111, 111>>
W_x == <<120>>
W_k == <<107>>
W_zz == << 122, 122 >>
W_w == <<119>>
W_include_file == <<105, 110, 99, 108, 117, 100, 101, 45, 102, 105, 108, 101>>
W_parse_to == <<112, 97, 114, 115, 101, 45, 116, 111>>

\* ------------------------------------------------------------------------
\* usize views of a cell
Usize(x) == IF x < 0 THEN (USIZE_MAX + x) + 1 ELSE x
Mask(x) == x % (ADDRESS_MASK + 1)
HasFlag(x, f) == (Usize(x) \div f) % 2 = 1
SetFlag(x, f) == IF HasFlag(x, f) THEN x ELSE x + f
InHeap(a) == a >= 0 /\ a < DATA_SIZE
InStrings(a) == a >= 0 /\ a < STRING_SIZE

\* Let(x, F): F applied to the value of x, which is computed once
Let(x, F(_)) == CHOOSE r \in { F(y) : y \in {x} } : TRUE

\* Source text: the digits of a number, and a line of tokens separated by
\* one space.
RECURSIVE Digits(_)
Digits(n) == IF n < 10 THEN << 48 + n >> ELSE Digits(n \div 10) \o << 48 + (n % 10) >>
Num(n) == IF n < 0 THEN << 45 >> \o Digits(0 - n) ELSE Digits(n)

RECURSIVE Line(_)
Line(tokens) ==
    IF Len(tokens) = 0 THEN << >>
    ELSE IF Len(tokens) = 1 THEN tokens[1]
    ELSE tokens[1] \o << SPACE >> \o Line(Tail(tokens))

\* The input sources.  A handle is standard input or a buffered reader on
\* a named file, with the number of lines already read from it.
StdinHandle == [source |-> "Stdin", name |-> << >>, pos |-> 0]
BReader(name) == [source |-> "BReader", name |-> name, pos |-> 0]

\* ------------------------------------------------------------------------
\* Kernel
Kernel_new ==
    [heap |-> [a \in 0..(DATA_SIZE - 1) |-> 0],
     strings |-> [a \in 0..(STRING_SIZE - 1) |-> SPACE],
     builtins |-> <<>>,
     stack_ptr |-> STACK_START,
     return_ptr |-> RET_START,
     string_ptr |-> 0,
     control_stack |-> <<>>,
     exit_flag |-> FALSE,
     panic |-> "none",
     msg |-> {},
     oob |-> FALSE,
     enter |-> FALSE,
     release |-> FALSE,
     reader |-> << StdinHandle >>]

\* Fields that are not fields of the Rust structs: panic is the panic
\* under way, msg what Msg printed in this step, oob whether a stack read
\* went outside the data stack region, enter that f_execute is at its call
\* of i_definition, release whether the build wraps on integer overflow
\* (a release build) or panics (a debug build).
\* A panic stops everything that follows it.
Ok(vm) == vm.panic = "none"
Panic(m, text) == Let(m, LAMBDA vm : IF Ok(vm) THEN [vm EXCEPT !.panic = text] ELSE vm)
Warn(m, text) ==
    Let(m, LAMBDA vm : IF Ok(vm) THEN [vm EXCEPT !.msg = vm.msg \cup {text}] ELSE vm)

reset(m) ==
    Let(m, LAMBDA vm :
        IF Ok(vm) THEN [vm EXCEPT !.stack_ptr = STACK_START, !.return_ptr = RET_START]
        ELSE vm)

\* get: the value read, and the index check of the read
get(vm, addr) == IF InHeap(addr) THEN vm.heap[addr] ELSE 0
get_chk(vm, addr) == IF InHeap(addr) THEN vm ELSE Panic(vm, "index out of bounds")

set(m, addr, val) ==
    Let(m, LAMBDA vm :
        IF ~Ok(vm) THEN vm
        ELSE IF InHeap(addr) THEN [vm EXCEPT !.heap[addr] = val]
        ELSE Panic(vm, "index out of bounds"))

incr(m, addr) == Let(m, LAMBDA vm : set(get_chk(vm, addr), addr, get(vm, addr) + 1))
delta(m, addr, d) == Let(m, LAMBDA vm : set(get_chk(vm, addr), addr, get(vm, addr) + d))

push(m, val) ==
    Let(m, LAMBDA vm :
        IF ~Ok(vm) THEN vm
        ELSE IF vm.stack_ptr <= 0 THEN Panic(vm, "cannot push")
        ELSE [vm EXCEPT !.stack_ptr = vm.stack_ptr - 1, !.heap[vm.stack_ptr - 1] = val])

\* pop: the machine after the pop; popv: the value it returns
pop(m) ==
    Let(m, LAMBDA vm :
        IF ~Ok(vm) THEN vm
        ELSE IF vm.stack_ptr >= STACK_START THEN Panic(vm, "cannot pop")
        ELSE [vm EXCEPT !.stack_ptr = vm.stack_ptr + 1])
popv(vm) == get(vm, vm.stack_ptr)

\* a read of heap[idx] as a stack item; oob records a read outside the
\* data stack region
stack_read(m, idx) ==
    Let(m, LAMBDA vm :
        IF ~Ok(vm) THEN vm
        ELSE IF ~InHeap(idx) THEN Panic(vm, "index out of bounds")
        ELSE IF idx >= STACK_START THEN [vm EXCEPT !.oob = TRUE]
        ELSE vm)

\* top, peek: the value, and the read itself
topv(vm) == get(vm, vm.stack_ptr)
top(m) == Let(m, LAMBDA vm : stack_read(vm, vm.stack_ptr))
peekv(vm, n) == get(vm, vm.stack_ptr + n)
peek(m, n) == Let(m, LAMBDA vm : stack_read(vm, vm.stack_ptr + n))

stack_len(vm) == STACK_START - vm.stack_ptr

stack_check(m, needed) ==
    Let(m, LAMBDA vm :
        IF ~Ok(vm) THEN vm
        ELSE IF (STACK_START - vm.stack_ptr) < needed THEN Panic(vm, "Stack underflow")
        ELSE vm)

max_builtin(vm) == Len(vm.builtins) - 1

\* ------------------------------------------------------------------------
\* strings
byte_at(vm, a) == IF InStrings(a) THEN vm.strings[a] ELSE 0

\* strings[at + i - 1] = s[i] for every i, in order; the first index outside
\* the string space panics
put_bytes(m, at, s) ==
    Let(m, LAMBDA vm :
        LET written == [vm EXCEPT !.strings =
                           [a \in DOMAIN vm.strings |->
                               IF a >= at /\ a < at + Len(s) THEN s[(a - at) + 1]
                               ELSE vm.strings[a]]]
        IN IF ~Ok(vm) \/ s = <<>> THEN vm
           ELSE IF at < 0 \/ at + Len(s) > STRING_SIZE
           THEN Panic(written, "index out of bounds")
           ELSE written)

string_set(vm, addr, s) == put_bytes(vm, Mask(addr), <<Len(s)>> \o s)
string_save(vm, s, to) == put_bytes(vm, to, <<Len(s)>> \o s)

string_new(m, s) ==
    Let(m, LAMBDA vm :
        set(put_bytes(vm, get(vm, vm.string_ptr), <<Len(s)>> \o s),
            vm.string_ptr, get(vm, vm.string_ptr) + 1 + Len(s)))
string_new_addr(vm) == get(vm, vm.string_ptr)

\* the payload of the counted string at addr
string_get(vm, addr) ==
    [i \in 1..byte_at(vm, addr) |-> byte_at(vm, Mask(addr) + i)]

string_copy(m, from, to, length, counted) ==
    Let(m, LAMBDA vm :
        put_bytes(vm, to, <<length>> \o
            [i \in 1..length |-> byte_at(vm, from + (i - 1) + (IF counted THEN 1 ELSE 0))]))

string_equal(vm, a1, a2) ==
    /\ byte_at(vm, a1) = byte_at(vm, a2)
    /\ \A i \in 0..byte_at(vm, a1) : byte_at(vm, a1 + i) = byte_at(vm, a2 + i)

string_length(vm, addr) == byte_at(vm, addr)

\* ------------------------------------------------------------------------
\* ForthRuntime: the cells that hold the interpreter's variables
here_ptr == 8
context_ptr == 12

\* make_word: a record at HERE with a name, the cells args and a back link
RECURSIVE put_cells(_, _, _)
put_cells(vm, at, args) ==
    IF args = <<>> THEN vm
    ELSE put_cells(set(vm, at, Head(args)), at + 1, Tail(args))

\* make_word leaving 0 in the cell of the new back pointer
make_word_unlinked(m, name, args) ==
    Let(m, LAMBDA vm :
        LET back == get(vm, here_ptr) - 1
            ptr == back + 1
            val == string_new_addr(vm)
            end == ptr + Len(args) + 1
        IN set(set(set(put_cells(set(string_new(vm, name), ptr, val), ptr + 1, args),
                       end, 0),
                   here_ptr, end + 1),
               context_ptr, back + 1))

make_word(m, name, args) ==
    Let(m, LAMBDA vm :
        LET back == get(vm, here_ptr) - 1
            ptr == back + 1
            val == string_new_addr(vm)
            end == ptr + Len(args) + 1
        IN set(set(set(put_cells(set(string_new(vm, name), ptr, val), ptr + 1, args),
                       end, back),
                   here_ptr, end + 1),
               context_ptr, back + 1))
\* the address make_word returns: the first parameter field
make_word_ret(vm) == (get(vm, here_ptr) - 1) + 2

make_variable(vm, name) == make_word(vm, name, <<TAG_VARIABLE, 0>>)
make_variable_ret(vm) == make_word_ret(vm) + 1

\* insert_variables up to the first call of make_variable
insert_variables_head ==
    Let(string_set(set(set(set(Kernel_new, 0, 0), 1, 0), 2, STR_START), STR_START, W_s_here),
        LAMBDA v1 :
    Let(set(set(set([v1 EXCEPT !.string_ptr = 4], 3, TAG_VARIABLE), 4, STR_START + 7), 5, 1),
        LAMBDA v3 :
    Let(set(set(set(set(string_new(v3, W_here), 6, string_new_addr(v3)),
                    7, TAG_VARIABLE), 8, 10), 9, 5),
        LAMBDA v5 :
    set(set(set(set(set(string_new(v5, W_context), 10, string_new_addr(v5)),
                    11, TAG_VARIABLE), 12, 10), 13, 9),
        here_ptr, 14))))

\* the variables made with make_variable, in the order of insert_variables
VariableNames ==
    <<W_pad, W_base, W_tmp, W_tib, W_ntib, W_to_in, W_hld, W_last, W_teval,
      W_abortq, W_state, W_stepper, W_stepper_depth>>

RECURSIVE variables_made(_)
\* the machine after the first k calls of make_variable
variables_made(k) ==
    IF k = 0 THEN insert_variables_head
    ELSE make_variable(variables_made(k - 1), VariableNames[k])

pad_ptr == make_variable_ret(variables_made(0))
base_ptr == make_variable_ret(variables_made(1))
tmp_ptr == make_variable_ret(variables_made(2))
tib_ptr == make_variable_ret(variables_made(3))
tib_size_ptr == make_variable_ret(variables_made(4))
tib_in_ptr == make_variable_ret(variables_made(5))
hld_ptr == make_variable_ret(variables_made(6))
last_ptr == make_variable_ret(variables_made(7))
abort_ptr == make_variable_ret(variables_made(9))
state_ptr == make_variable_ret(variables_made(10))
stepper_ptr == make_variable_ret(variables_made(11))
step_depth_ptr == make_variable_ret(variables_made(12))

insert_variables ==
    set(set(set(set(set(set(set(variables_made(Len(VariableNames)),
                                pad_ptr, PAD_START),
                            base_ptr, 10),
                        tmp_ptr, TMP_START),
                    tib_ptr, TIB_START),
                tib_size_ptr, 0),
            tib_in_ptr, TIB_START + 1),
        abort_ptr, FALSE_F)

set_abort_flag(vm, v) == set(vm, abort_ptr, IF v THEN -1 ELSE 0)
\* a get_abort_flag that reads the STATE cell instead of ABORT?
abort_flag_from_state(vm) == get(vm, state_ptr) # FALSE_F
get_abort_flag(vm) == get(vm, abort_ptr) # FALSE_F
get_compile_mode(vm) == get(vm, state_ptr) # FALSE_F
set_compile_mode(vm, value) == set(vm, state_ptr, IF value THEN -1 ELSE 0)
\* a loop that never sees the exit flag
should_exit_never(vm) == FALSE

should_exit(vm) == vm.exit_flag

f_bye(m) == Let(m, LAMBDA vm : IF Ok(vm) THEN [vm EXCEPT !.exit_flag = TRUE] ELSE vm)

\* a clear that also leaves compile mode
f_clear_to_interpret(vm) == set_compile_mode(reset(vm), FALSE)

f_clear(vm) == reset(vm)

\* an abort that also closes the included files
f_abort_closing_sources(vm) ==
    [set_abort_flag(f_clear(Warn(vm, "ABORT: Terminating execution")), TRUE)
       EXCEPT !.reader = SubSeq(vm.reader, 1, 1)]

\* f_raw_mode_off only talks to the terminal
f_abort(vm) == set_abort_flag(f_clear(Warn(vm, "ABORT: Terminating execution")), TRUE)

\* ------------------------------------------------------------------------
\* general.rs
\* usize arithmetic that overflows: a panic in a debug build, the wrapped
\* value in a release build
Overflow(m, text) == Let(m, LAMBDA vm : IF vm.release THEN vm ELSE Panic(vm, text))

\* i64 division and remainder truncate toward zero
Abs(x) == IF x < 0 THEN 0 - x ELSE x
TruncDiv(a, b) == IF (a < 0) = (b < 0) THEN Abs(a) \div Abs(b) ELSE 0 - (Abs(a) \div Abs(b))
TruncRem(a, b) == a - (b * TruncDiv(a, b))

\* bitwise operations on the usize views
RECURSIVE BitAnd(_, _)
BitAnd(a, b) ==
    IF a = 0 \/ b = 0 THEN 0
    ELSE ((a % 2) * (b % 2)) + (2 * BitAnd(a \div 2, b \div 2))
RECURSIVE BitOr(_, _)
BitOr(a, b) ==
    IF a = 0 THEN b
    ELSE IF b = 0 THEN a
    ELSE (IF (a % 2) + (b % 2) > 0 THEN 1 ELSE 0) + (2 * BitOr(a \div 2, b \div 2))
\* usize as i64
AsI64(u) == IF u > (USIZE_MAX \div 2) THEN (u - USIZE_MAX) - 1 ELSE u

f_plus(m) ==
    Let(stack_check(m, 2), LAMBDA v0 :
    Let(pop(v0), LAMBDA v1 :
    push(pop(v1), popv(v0) + popv(v1))))

\* pop2_push1: j = pop, k = pop, push f(k, j)
f_minus(m) ==
    Let(stack_check(m, 2), LAMBDA v0 :
    Let(pop(v0), LAMBDA v1 :
    push(pop(v1), popv(v1) - popv(v0))))

f_times(m) ==
    Let(stack_check(m, 2), LAMBDA v0 :
    Let(pop(v0), LAMBDA v1 :
    push(pop(v1), popv(v1) * popv(v0))))

f_divide(m) ==
    Let(stack_check(m, 2), LAMBDA v0 :
    Let(pop(v0), LAMBDA v1 :
    IF popv(v0) = 0 THEN Panic(pop(v1), "attempt to divide by zero")
    ELSE push(pop(v1), TruncDiv(popv(v1), popv(v0)))))

f_mod(m) ==
    Let(stack_check(m, 2), LAMBDA v0 :
    Let(pop(v0), LAMBDA v1 :
    IF popv(v0) = 0
    THEN Panic(pop(v1), "attempt to calculate the remainder with a divisor of zero")
    ELSE push(pop(v1), TruncRem(popv(v1), popv(v0)))))

f_less(m) ==
    Let(stack_check(m, 2), LAMBDA v0 :
    Let(pop(v0), LAMBDA v1 :
    push(pop(v1), IF popv(v1) < popv(v0) THEN -1 ELSE 0)))

f_equal(m) ==
    Let(stack_check(m, 2), LAMBDA v0 :
    Let(pop(v0), LAMBDA v1 :
    push(pop(v1), IF popv(v1) = popv(v0) THEN -1 ELSE 0)))

\* pop1_push1
f_0equal(m) ==
    Let(stack_check(m, 1), LAMBDA v0 : push(pop(v0), IF popv(v0) = 0 THEN -1 ELSE 0))

f_0less(m) ==
    Let(stack_check(m, 1), LAMBDA v0 : push(pop(v0), IF popv(v0) < 0 THEN -1 ELSE 0))

f_dup(m) == Let(stack_check(m, 1), LAMBDA v0 : push(top(v0), topv(v0)))

f_drop(m) == pop(stack_check(m, 1))

f_swap(m) ==
    Let(stack_check(m, 2), LAMBDA v0 :
    Let(pop(v0), LAMBDA v1 :
    push(push(pop(v1), popv(v0)), popv(v1))))

\* over without the copy it pushes last
f_over_no_copy(m) ==
    Let(stack_check(m, 2), LAMBDA v0 :
    Let(pop(v0), LAMBDA v1 :
    push(push(pop(v1), popv(v1)), popv(v0))))

f_over(m) ==
    Let(stack_check(m, 2), LAMBDA v0 :
    Let(pop(v0), LAMBDA v1 :
    push(push(push(pop(v1), popv(v1)), popv(v0)), popv(v1))))

f_rot(m) ==
    Let(stack_check(m, 3), LAMBDA v0 :
    Let(pop(v0), LAMBDA v1 :
    Let(pop(v1), LAMBDA v2 :
    push(push(push(pop(v2), popv(v1)), popv(v0)), popv(v2)))))

\* n + 1 overflows for n = usize::MAX; wrapped, the check asks for no item
\* and peek(n) reads heap[stack_ptr - 1]
f_pick(m) ==
    Let(stack_check(m, 1), LAMBDA v0 :
    Let(pop(v0), LAMBDA v1 :
    LET n == Usize(popv(v0))
    IN IF n = USIZE_MAX
       THEN Let(Overflow(v1, "attempt to add with overflow"), LAMBDA v2 :
                push(get_chk(v2, v2.stack_ptr - 1), get(v2, v2.stack_ptr - 1)))
       ELSE Let(stack_check(v1, n + 1), LAMBDA v2 :
                push(peek(v2, n), peekv(v2, n)))))

RECURSIVE roll_shift(_, _)
\* for i in (1..=n).rev(): heap[stack_ptr + i] = peek(i - 1)
roll_shift(m, i) ==
    Let(m, LAMBDA vm :
        IF i < 1 THEN vm
        ELSE roll_shift(set(peek(vm, i - 1), vm.stack_ptr + i, peekv(vm, i - 1)), i - 1))

\* roll without the loop that shifts the items above the n-th down
f_roll_no_shift(m) ==
    Let(stack_check(m, 1), LAMBDA v0 :
    Let(pop(v0), LAMBDA v1 :
    LET n == Usize(popv(v0))
    IN IF n = 0 THEN v1
       ELSE IF n = USIZE_MAX
       THEN Panic(Overflow(v1, "attempt to add with overflow"), "index out of bounds")
       ELSE Let(stack_check(v1, n + 1), LAMBDA v2 :
                set(peek(v2, n), v2.stack_ptr, peekv(v2, n)))))

\* for n = usize::MAX a release build shifts cells below the stack pointer
\* until the index leaves the heap
f_roll(m) ==
    Let(stack_check(m, 1), LAMBDA v0 :
    Let(pop(v0), LAMBDA v1 :
    LET n == Usize(popv(v0))
    IN IF n = 0 THEN v1
       ELSE IF n = USIZE_MAX
       THEN Panic(Overflow(v1, "attempt to add with overflow"), "index out of bounds")
       ELSE Let(stack_check(v1, n + 1), LAMBDA v2 :
                set(roll_shift(peek(v2, n), n), v2.stack_ptr, peekv(v2, n)))))

f_and(m) ==
    Let(stack_check(m, 2), LAMBDA v0 :
    Let(pop(v0), LAMBDA v1 :
    push(pop(v1), AsI64(BitAnd(Usize(popv(v0)), Usize(popv(v1)))))))

f_or(m) ==
    Let(stack_check(m, 2), LAMBDA v0 :
    Let(pop(v0), LAMBDA v1 :
    push(pop(v1), AsI64(BitOr(Usize(popv(v0)), Usize(popv(v1)))))))

f_get(m) ==
    Let(stack_check(m, 1), LAMBDA v0 :
    Let(pop(v0), LAMBDA v1 :
    LET addr == Usize(popv(v0))
    IN IF addr < DATA_SIZE THEN push(v1, get(v1, addr))
       ELSE f_abort(Warn(v1, "@: Address out of range"))))

\* the range check of ! taking DATA_SIZE itself for an address
f_store_inclusive(m) ==
    Let(stack_check(m, 2), LAMBDA v0 :
    Let(pop(v0), LAMBDA v1 :
    Let(pop(v1), LAMBDA v2 :
    LET addr == Usize(popv(v0))
    IN IF addr <= DATA_SIZE THEN set(v2, addr, popv(v1))
       ELSE f_abort(Warn(v2, "@: Address out of range")))))

f_store(m) ==
    Let(stack_check(m, 2), LAMBDA v0 :
    Let(pop(v0), LAMBDA v1 :
    Let(pop(v1), LAMBDA v2 :
    LET addr == Usize(popv(v0))
    IN IF addr < DATA_SIZE THEN set(v2, addr, popv(v1))
       ELSE f_abort(Warn(v2, "@: Address out of range")))))

set_return_ptr(m, val) ==
    Let(m, LAMBDA vm : IF Ok(vm) THEN [vm EXCEPT !.return_ptr = val] ELSE vm)

\* return_ptr - 1 overflows for return_ptr = 0; wrapped, the write that
\* follows is outside the heap
f_to_r(m) ==
    Let(stack_check(m, 1), LAMBDA v0 :
    Let(pop(v0), LAMBDA v1 :
    IF v1.return_ptr = 0
    THEN Panic(Overflow(v1, "attempt to subtract with overflow"), "index out of bounds")
    ELSE set(set_return_ptr(v1, v1.return_ptr - 1), v1.return_ptr - 1, popv(v0))))

f_r_from(m) ==
    Let(m, LAMBDA vm :
        set_return_ptr(push(get_chk(vm, vm.return_ptr), get(vm, vm.return_ptr)),
                       vm.return_ptr + 1))

f_r_get(m) == Let(m, LAMBDA vm : push(get_chk(vm, vm.return_ptr), get(vm, vm.return_ptr)))

f_i(m) == Let(m, LAMBDA vm : push(get_chk(vm, vm.return_ptr), get(vm, vm.return_ptr)))

f_j(m) ==
    Let(m, LAMBDA vm : push(get_chk(vm, vm.return_ptr + 1), get(vm, vm.return_ptr + 1)))

f_stack_depth(m) == Let(m, LAMBDA vm : push(vm, stack_len(vm)))

\* ------------------------------------------------------------------------
\* compiler.rs: dictionary search, numbers, the parser and the colon compiler

\* immediate flipping the flag bit instead of setting it
f_immediate_toggle(m) ==
    Let(m, LAMBDA vm :
        LET addr == Usize(get(vm, context_ptr))
            name == get(vm, addr)
        IN set(get_chk(vm, addr), addr,
               IF HasFlag(name, IMMEDIATE_FLAG) THEN name - IMMEDIATE_FLAG
               ELSE SetFlag(name, IMMEDIATE_FLAG)))

f_immediate(m) ==
    Let(m, LAMBDA vm :
        LET addr == Usize(get(vm, context_ptr))
        IN set(get_chk(vm, addr), addr, SetFlag(get(vm, addr), IMMEDIATE_FLAG)))

\* clean_cfa - 1 overflows for clean_cfa = 0; wrapped, the read that follows
\* is outside the heap
f_immediate_q(m) ==
    Let(stack_check(m, 1), LAMBDA v0 :
    Let(pop(v0), LAMBDA v1 :
    LET clean_cfa == Mask(Usize(popv(v0)))
    IN IF clean_cfa = 0
       THEN Panic(Overflow(v1, "attempt to subtract with overflow"), "index out of bounds")
       ELSE push(get_chk(v1, clean_cfa - 1),
                 IF HasFlag(get(v1, clean_cfa - 1), IMMEDIATE_FLAG) THEN TRUE_F ELSE FALSE_F)))

RECURSIVE walk_to_end(_, _, _, _, _)
\* a search that goes on to the end of the chain and so stops at the
\* oldest record of the name
walk_to_end(vm, source_addr, link, fuel, found) ==
    IF link <= 0 THEN found
    ELSE IF ~InHeap(link + 1) THEN -1
    ELSE IF fuel = 0 THEN -2
    ELSE IF string_equal(vm, source_addr, Mask(Usize(get(vm, link + 1))))
    THEN walk_to_end(vm, source_addr, Usize(get(vm, link)), fuel - 1, link)
    ELSE walk_to_end(vm, source_addr, Usize(get(vm, link)), fuel - 1, found)
find_walk_oldest(vm, source_addr, link, fuel) == walk_to_end(vm, source_addr, link, fuel, 0)

RECURSIVE find_walk(_, _, _, _)
\* the while loop of f_find: the link it stops at, 0 when the name is not
\* found; -1 when a read leaves the heap, -2 when the loop does not end
find_walk(vm, source_addr, link, fuel) ==
    IF link <= 0 THEN 0
    ELSE IF ~InHeap(link + 1) THEN -1
    ELSE IF fuel = 0 THEN -2
    ELSE IF string_equal(vm, source_addr, Mask(Usize(get(vm, link + 1)))) THEN link
    ELSE find_walk(vm, source_addr, Usize(get(vm, link)), fuel - 1)

f_find(m) ==
    Let(stack_check(m, 1), LAMBDA v0 :
    Let(pop(v0), LAMBDA v1 :
    LET source_addr == Usize(popv(v0))
        ctx == Usize(get(v1, context_ptr))
    IN Let(IF ctx = 0 THEN -1 ELSE find_walk(v1, source_addr, ctx - 1, DATA_SIZE),
           LAMBDA link :
           IF link = -1 THEN Panic(v1, "index out of bounds")
           ELSE IF link = -2 THEN Panic(v1, "hang")
           ELSE IF link > 0 THEN push(push(v1, link + 2), TRUE_F)
           ELSE push(push(v1, source_addr), FALSE_F))))

\* str::parse::<i64>: an optional sign and at least one decimal digit
IsDigit(b) == b >= 48 /\ b <= 57
RECURSIVE digits_value(_, _)
digits_value(s, acc) ==
    IF s = <<>> THEN acc ELSE digits_value(Tail(s), acc * 10 + (Head(s) - 48))
unsigned_part(s) == IF s # <<>> /\ (Head(s) = 43 \/ Head(s) = 45) THEN Tail(s) ELSE s
u_is_integer(s) ==
    /\ unsigned_part(s) # <<>>
    /\ \A i \in 1..Len(unsigned_part(s)) : IsDigit(unsigned_part(s)[i])
parse_i64(s) ==
    IF s # <<>> /\ Head(s) = 45 THEN 0 - digits_value(Tail(s), 0)
    ELSE digits_value(unsigned_part(s), 0)

\* number? reading the digits in the base the BASE variable holds
digit_of(b) ==
    IF IsDigit(b) THEN b - 48 ELSE IF b >= 97 /\ b <= 122 THEN b - 87 ELSE 99
RECURSIVE radix_value(_, _, _)
radix_value(s, acc, radix) ==
    IF s = <<>> THEN acc ELSE radix_value(Tail(s), acc * radix + digit_of(Head(s)), radix)
f_number_q_in_base(m) ==
    Let(m, LAMBDA vm :
    Let(pop(vm), LAMBDA v1 :
    Let(string_get(v1, Usize(popv(vm))), LAMBDA numtext :
        LET radix == get(vm, base_ptr)
            digits == unsigned_part(numtext)
            value == radix_value(digits, 0, radix)
        IN IF digits # <<>> /\ \A i \in 1..Len(digits) : digit_of(digits[i]) < radix
           THEN push(push(v1, IF Head(numtext) = 45 THEN 0 - value ELSE value), TRUE_F)
           ELSE push(push(v1, popv(vm)), FALSE_F))))

f_number_q(m) ==
    Let(m, LAMBDA vm :
    Let(pop(vm), LAMBDA v1 :
    Let(string_get(v1, Usize(popv(vm))), LAMBDA numtext :
        IF u_is_integer(numtext) THEN push(push(v1, parse_i64(numtext)), TRUE_F)
        ELSE push(push(v1, popv(vm)), FALSE_F))))

f_comma(m) ==
    Let(m, LAMBDA vm :
        incr(set(pop(vm), Usize(get(vm, here_ptr)), popv(vm)), here_ptr))

\* the value compiled ahead of its LITERAL tag
f_literal_value_first(vm) == f_comma(push(f_comma(vm), TAG_LITERAL))

f_literal(vm) == f_comma(f_comma(push(vm, TAG_LITERAL)))

f_q_unique(m) ==
    Let(f_find(f_dup(m)), LAMBDA v1 :
        IF popv(v1) = TRUE_F
        THEN Warn(pop(pop(v1)), "unique?: Overwriting existing definition")
        ELSE pop(pop(v1)))

RECURSIVE skip_delims(_, _, _, _, _)
\* while buffer[i] == delim && i < end { i += 1 }
skip_delims(vm, in_p, i, end, delim) ==
    IF byte_at(vm, in_p + i) = delim /\ i < end
    THEN skip_delims(vm, in_p, i + 1, end, delim)
    ELSE i

RECURSIVE scan_token(_, _, _, _, _)
\* while j < end && buffer[j] != delim { j += 1 }
scan_token(vm, in_p, j, end, delim) ==
    IF j < end /\ byte_at(vm, in_p + j) # delim
    THEN scan_token(vm, in_p, j + 1, end, delim)
    ELSE j

f_parse_p(m) ==
    Let(stack_check(m, 3), LAMBDA v0 :
    Let(pop(v0), LAMBDA v1 :
    Let(pop(v1), LAMBDA v2 :
    Let(pop(v2), LAMBDA v3 :
    LET delim == popv(v0) % 256
        buf_len == popv(v1)
        in_p == popv(v2)
    IN IF buf_len > 0
       THEN \* string_slice(in_p, buf_len + 1)
            IF in_p < 0 \/ in_p + buf_len + 1 > STRING_SIZE
            THEN Panic(v3, "index out of bounds")
            ELSE Let(skip_delims(v3, in_p, 0, buf_len, delim), LAMBDA i :
                 Let(scan_token(v3, in_p, i, buf_len, delim), LAMBDA j :
                     push(push(push(v3, in_p), j - i), i)))
       ELSE push(push(push(v3, in_p), 0), 0)))))

\* parse-to with a window one byte short of the end of the line
f_parse_to_short_window(m) ==
    Let(stack_check(m, 2), LAMBDA v0 :
    Let(pop(v0), LAMBDA v1 :
    Let(pop(v1), LAMBDA v2 :
    LET delim == popv(v0)
        dest == popv(v1)
        addr0 == get(v2, tib_ptr) + get(v2, tib_in_ptr)
        val0 == get(v2, tib_size_ptr) - get(v2, tib_in_ptr)
    IN IF delim = 1
       THEN Let(set(set(v2, tib_in_ptr, 1), tib_size_ptr, 0), LAMBDA d1 :
                push(push(d1, get(d1, tib_ptr)), 0))
       ELSE Let(f_parse_p(push(push(push(v2, addr0), val0), delim)), LAMBDA p1 :
            Let(pop(p1), LAMBDA p2 :
            Let(pop(p2), LAMBDA p3 :
            Let(pop(p3), LAMBDA p4 :
            LET dlt == popv(p1)
                length == popv(p2)
                addr == popv(p3)
            IN Let(IF length > 0
                   THEN string_copy(p4, Usize(addr + dlt), Usize(dest), Usize(length), FALSE)
                   ELSE p4, LAMBDA p5 :
                   push(push(set(p5, tib_in_ptr,
                                 ((get(p5, tib_in_ptr) + dlt) + length) + 1),
                             dest),
                        length)))))))))

f_parse_to(m) ==
    Let(stack_check(m, 2), LAMBDA v0 :
    Let(pop(v0), LAMBDA v1 :
    Let(pop(v1), LAMBDA v2 :
    LET delim == popv(v0)
        dest == popv(v1)
        addr0 == get(v2, tib_ptr) + get(v2, tib_in_ptr)
        val0 == (get(v2, tib_size_ptr) - get(v2, tib_in_ptr)) + 1
    IN IF delim = 1
       THEN Let(set(set(v2, tib_in_ptr, 1), tib_size_ptr, 0), LAMBDA d1 :
                push(push(d1, get(d1, tib_ptr)), 0))
       ELSE Let(f_parse_p(push(push(push(v2, addr0), val0), delim)), LAMBDA p1 :
            Let(pop(p1), LAMBDA p2 :
            Let(pop(p2), LAMBDA p3 :
            Let(pop(p3), LAMBDA p4 :
            LET dlt == popv(p1)
                length == popv(p2)
                addr == popv(p3)
            IN Let(IF length > 0
                   THEN string_copy(p4, Usize(addr + dlt), Usize(dest), Usize(length), FALSE)
                   ELSE p4, LAMBDA p5 :
                   push(push(set(p5, tib_in_ptr,
                                 ((get(p5, tib_in_ptr) + dlt) + length) + 1),
                             dest),
                        length)))))))))

f_smove(m) ==
    Let(m, LAMBDA vm :
    Let(pop(vm), LAMBDA v1 :
    Let(pop(v1), LAMBDA v2 :
    LET dest == Usize(popv(vm))
        length == Usize(popv(v1))
        source == Usize(popv(v2))
    IN push(string_copy(pop(v2), source, dest, length, TRUE), dest))))

\* create setting CONTEXT as well as LAST to the new name field
f_create_linking(m) ==
    Let(m, LAMBDA vm :
    Let(f_q_unique(pop(f_parse_to(push(push(vm, get(vm, pad_ptr)), SPACE)))), LAMBDA v4 :
    LET length == string_length(v4, Usize(get(v4, pad_ptr)))
    IN Let(f_smove(push(push(v4, length), get(v4, v4.string_ptr))), LAMBDA v7 :
       Let(delta(set(pop(v7), Usize(get(v7, here_ptr)), popv(v7)),
                 v7.string_ptr, length + 1), LAMBDA v10 :
           incr(set(set(v10, last_ptr, Usize(get(v10, here_ptr))),
                    context_ptr, Usize(get(v10, here_ptr))), here_ptr)))))

f_create(m) ==
    Let(m, LAMBDA vm :
    Let(f_q_unique(pop(f_parse_to(push(push(vm, get(vm, pad_ptr)), SPACE)))), LAMBDA v4 :
    LET length == string_length(v4, Usize(get(v4, pad_ptr)))
    IN Let(f_smove(push(push(v4, length), get(v4, v4.string_ptr))), LAMBDA v7 :
       Let(delta(set(pop(v7), Usize(get(v7, here_ptr)), popv(v7)),
                 v7.string_ptr, length + 1), LAMBDA v10 :
           incr(set(v10, last_ptr, Usize(get(v10, here_ptr))), here_ptr)))))

f_colon(vm) == f_comma(push(f_create(set_compile_mode(vm, TRUE)), TAG_DEFINITION))

\* ; writing the record's own name cell as its back pointer
f_semicolon_own_link(m) ==
    Let(f_comma(push(m, TAG_EXIT)), LAMBDA v1 :
    LET back == get(v1, last_ptr)
        here == Usize(get(v1, here_ptr))
    IN set_compile_mode(set(incr(set(v1, here, back), here_ptr), context_ptr, back),
                        FALSE))

f_semicolon(m) ==
    Let(f_comma(push(m, TAG_EXIT)), LAMBDA v1 :
    LET back == get(v1, last_ptr)
        here == Usize(get(v1, here_ptr))
    IN set_compile_mode(set(incr(set(v1, here, back - 1), here_ptr), context_ptr, back),
                        FALSE))

\* ------------------------------------------------------------------------
\* The files of the host: a loads b, which defines and runs a word; d
\* loads c, and c says bye; e, f and g hold numbers, a line each.  Each line
\* ends with its newline.
W_fa == <<97>>
W_fb == <<98>>
W_fc == <<99>>
W_fd == <<100>>
W_fe == <<101>>
W_ff == <<102>>
W_fg == <<103>>
W_fi == <<105>>
NEWLINE == 10
Num32 == <<51, 50>>

file_exists(name) == name \in {W_fa, W_fb, W_fc, W_fd, W_fe, W_ff, W_fg, W_fi}

file_text(name) ==
    CASE name = W_fa ->
           << Line(<< Num(2) >>) \o << NEWLINE >>,
              Line(<< W_tmp, W_fetch, Num32, W_parse_to, W_fb, W_drop >>) \o << NEWLINE >>,
              Line(<< W_include_file, Num(3) >>) \o << NEWLINE >>,
              Line(<< Num(4) >>) \o << NEWLINE >> >>
      [] name = W_fb ->
           << Line(<< W_colon, W_k, Num(5), W_semicolon, W_k >>) \o << NEWLINE >>,
              Line(<< Num(6) >>) \o << NEWLINE >> >>
      [] name = W_fc ->
           << Line(<< Num(7), W_bye, Num(8) >>) \o << NEWLINE >>,
              Line(<< Num(9) >>) \o << NEWLINE >> >>
      [] name = W_fd ->
           << Line(<< W_tmp, W_fetch, Num32, W_parse_to, W_fc, W_drop >>) \o << NEWLINE >>,
              Line(<< W_include_file >>) \o << NEWLINE >>,
              Line(<< Num(4) >>) \o << NEWLINE >> >>
      [] name = W_fe ->
           << Line(<< Num(11) >>) \o << NEWLINE >>,
              Line(<< Num(12) >>) \o << NEWLINE >> >>
      [] name = W_ff ->
           << Line(<< Num(21) >>) \o << NEWLINE >>,
              Line(<< Num(22) >>) \o << NEWLINE >> >>
      [] name = W_fg ->
           << Line(<< Num(31) >>) \o << NEWLINE >> >>
      [] name = W_fi ->
           << Line(<< W_colon, W_k, W_abort, W_semicolon >>) \o << NEWLINE >>,
              Line(<< W_k, Num(1) >>) \o << NEWLINE >>,
              Line(<< W_colon, W_x, W_zz, Num(2) >>) \o << NEWLINE >>,
              Line(<< W_semicolon >>) \o << NEWLINE >>,
              Line(<< Num(3) >>) \o << NEWLINE >> >>
      [] OTHER -> << >>

\* console.rs: u_open_file.  A name that does not resolve pushes FALSE and
\* warns; the caller then gets no handle.
u_open_file(vm, name) ==
    IF file_exists(name) THEN vm
    ELSE Warn(push(vm, FALSE_F), "open-file: No such file or directory")

f_include_file(m) ==
    Let(stack_check(m, 1), LAMBDA v0 :
    Let(pop(v0), LAMBDA v1 :
    Let(string_get(v1, Usize(popv(v0))), LAMBDA file_name :
        IF ~Ok(v1) THEN v1
        ELSE IF file_exists(file_name)
        THEN push([u_open_file(v1, file_name) EXCEPT
                       !.reader = Append(@, BReader(file_name))], TRUE_F)
        ELSE push(u_open_file(v1, file_name), FALSE_F))))

\* ------------------------------------------------------------------------
\* The builtin words the model registers, in the order of compile_builtins,
\* which ends with ";" followed by f_immediate
BuiltinsFirst ==
    << [name |-> W_plus, code |-> "f_plus"],
       [name |-> W_times, code |-> "f_times"],
       [name |-> W_colon, code |-> "f_colon"],
       [name |-> W_bye, code |-> "f_bye"],
       [name |-> W_dup, code |-> "f_dup"],
       [name |-> W_drop, code |-> "f_drop"],
       [name |-> W_fetch, code |-> "f_get"],
       [name |-> W_store, code |-> "f_store"],
       [name |-> W_j, code |-> "f_j"],
       [name |-> W_abort, code |-> "f_abort"],
       [name |-> W_include_file, code |-> "f_include_file"],
       [name |-> W_to_r, code |-> "f_to_r"],
       [name |-> W_r_from, code |-> "f_r_from"],
       [name |-> W_immediate, code |-> "f_immediate"],
       [name |-> W_execute, code |-> "f_execute"],
       [name |-> W_parse_to, code |-> "f_parse_to"],
       [name |-> W_create, code |-> "f_create"],
       [name |-> W_comma, code |-> "f_comma"],
       [name |-> W_semicolon, code |-> "f_semicolon"] >>

\* the index taken after the push without the - 1 of Kernel::add_builtin
add_builtin_len_after(m, name, code) ==
    Let(m, LAMBDA vm :
        make_word([vm EXCEPT !.builtins = Append(vm.builtins, code)], name,
                  << (Len(vm.builtins) + 1) + BUILTIN_FLAG >>))

\* add_builtin: the function joins the table, the word the dictionary
add_builtin(m, name, code) ==
    Let(m, LAMBDA vm :
        make_word([vm EXCEPT !.builtins = Append(vm.builtins, code)], name,
                  << Len(vm.builtins) + BUILTIN_FLAG >>))

RECURSIVE add_builtins(_, _)
add_builtins(vm, list) ==
    IF list = <<>> THEN vm
    ELSE add_builtins(add_builtin(vm, Head(list).name, Head(list).code), Tail(list))

compile_builtins(vm) == f_immediate(add_builtins(vm, BuiltinsFirst))

cold_start == set(compile_builtins(insert_variables), state_ptr, FALSE_F)

\* ------------------------------------------------------------------------
\* Dispatch.  f_execute and the builtin `execute` call each other.
i_variable(m) == Let(m, LAMBDA vm : push(pop(vm), popv(vm)))
i_constant(m) ==
    Let(m, LAMBDA vm :
        push(get_chk(pop(vm), Usize(popv(vm))), get(vm, Usize(popv(vm)))))
i_exit(vm) == f_r_from(vm)
\* i_definition is a loop of its own: f_execute only reaches its call
enter_definition(m) == Let(m, LAMBDA vm : IF Ok(vm) THEN [vm EXCEPT !.enter = TRUE] ELSE vm)

\* runtime.rs: the control markers, and the words >c and c> that push and
\* pop them
MARK_BEGIN == 200000
MARK_WHILE == 200001
MARK_FOR == 200002
MARK_CASE == 200003
MARK_OF == 200004

ControlMarker(tag, addr) ==
    [kind |-> CASE tag = MARK_BEGIN -> "Begin"
                [] tag = MARK_WHILE -> "While"
                [] tag = MARK_FOR -> "For"
                [] tag = MARK_CASE -> "Case"
                [] tag = MARK_OF -> "Of",
     addr |-> addr]

f_to_c(m) ==
    Let(m, LAMBDA vm :
    Let(pop(vm), LAMBDA v1 :
    Let(pop(v1), LAMBDA v2 :
    LET tag == popv(vm)
        addr == Usize(popv(v1))
    IN IF ~Ok(v2) THEN v2
       ELSE IF tag \notin {MARK_BEGIN, MARK_WHILE, MARK_FOR, MARK_CASE, MARK_OF}
       THEN Panic(v2, ">c: unknown control tag")
       ELSE [v2 EXCEPT !.control_stack = Append(@, ControlMarker(tag, addr))])))

f_from_c(m) ==
    Let(m, LAMBDA vm :
        IF ~Ok(vm) THEN vm
        ELSE IF vm.control_stack = << >> THEN Warn(vm, "c>: control stack underflow")
        ELSE push([vm EXCEPT !.control_stack = SubSeq(@, 1, Len(@) - 1)],
                  vm.control_stack[Len(vm.control_stack)].addr))

RECURSIVE f_execute(_)
RECURSIVE builtin(_, _)

builtin(m, code) ==
    Let(m, LAMBDA vm :
    IF ~Ok(vm) THEN vm
    ELSE IF code < 0 \/ code >= Len(vm.builtins) THEN Panic(vm, "index out of bounds")
    ELSE LET f == vm.builtins[code + 1]
         IN CASE f = "f_plus" -> f_plus(vm)
              [] f = "f_times" -> f_times(vm)
              [] f = "f_colon" -> f_colon(vm)
              [] f = "f_bye" -> f_bye(vm)
              [] f = "f_dup" -> f_dup(vm)
              [] f = "f_drop" -> f_drop(vm)
              [] f = "f_get" -> f_get(vm)
              [] f = "f_store" -> f_store(vm)
              [] f = "f_j" -> f_j(vm)
              [] f = "f_abort" -> f_abort(vm)
              [] f = "f_include_file" -> f_include_file(vm)
              [] f = "f_to_r" -> f_to_r(vm)
              [] f = "f_r_from" -> f_r_from(vm)
              [] f = "f_immediate" -> f_immediate(vm)
              [] f = "f_execute" -> f_execute(vm)
              [] f = "f_parse_to" -> f_parse_to(vm)
              [] f = "f_create" -> f_create(vm)
              [] f = "f_comma" -> f_comma(vm)
              [] f = "f_semicolon" -> f_semicolon(vm)
              [] f = "f_to_c" -> f_to_c(vm)
              [] f = "f_from_c" -> f_from_c(vm))

f_execute(m) ==
    Let(stack_check(m, 1), LAMBDA v0 :
    LET xt == popv(v0)
    IN Let(get_chk(push(pop(v0), xt + 1), Mask(Usize(xt))), LAMBDA v2 :
       LET opcode == get(v2, Mask(Usize(xt)))
       IN CASE opcode = TAG_BUILTIN -> Warn(v2, "f_execute: BUILTIN found")
            [] opcode = TAG_VARIABLE -> i_variable(v2)
            [] opcode = TAG_CONSTANT -> i_constant(v2)
            [] opcode \in {TAG_LITERAL, TAG_STRLIT, TAG_BRANCH, TAG_BRANCH0, TAG_ABORT} -> v2
            [] opcode = TAG_DEFINITION -> enter_definition(v2)
            [] opcode \in {TAG_EXIT, TAG_BREAK} -> i_exit(v2)
            [] OTHER ->
                 Let(get_chk(pop(v2), Usize(xt)), LAMBDA v3 :
                     builtin(v3, Mask(Usize(get(v3, Usize(xt))))))))

\* an f_d_interpret that treats an unresolved token as f_d_compile does
f_d_interpret_aborting(m) ==
    Let(f_find(top(stack_check(m, 1))), LAMBDA v1 :
        IF popv(v1) = TRUE_F THEN f_execute(pop(v1))
        ELSE Let(f_number_q(pop(v1)), LAMBDA v3 :
                 IF popv(v3) = TRUE_F THEN pop(v3)
                 ELSE f_abort(Warn(pop(pop(v3)), "$interpret: token not recognized"))))

f_d_interpret(m) ==
    Let(f_find(top(stack_check(m, 1))), LAMBDA v1 :
        IF popv(v1) = TRUE_F THEN f_execute(pop(v1))
        ELSE Let(f_number_q(pop(v1)), LAMBDA v3 :
                 IF popv(v3) = TRUE_F THEN pop(v3)
                 ELSE Warn(pop(pop(v3)), "$interpret: token not recognized")))

\* a $compile that does not ask immediate? and compiles every found word
f_d_compile_all(m) ==
    Let(f_find(stack_check(m, 1)), LAMBDA v1 :
    Let(pop(v1), LAMBDA v2 :
        IF popv(v1) = TRUE_F
        THEN LET cfa == topv(v2)
             IN Let(pop(v2), LAMBDA w2 :
                    IF HasFlag(get(w2, Usize(cfa)), BUILTIN_FLAG)
                    THEN f_comma(push(get_chk(w2, Usize(cfa)), get(w2, Usize(cfa))))
                    ELSE f_comma(push(get_chk(w2, Usize(cfa)), cfa)))
        ELSE Let(f_number_q(v2), LAMBDA n1 :
                 IF popv(n1) = TRUE_F THEN f_literal(pop(n1))
                 ELSE f_abort(Warn(pop(pop(n1)), "$interpret: token not recognized")))))

f_d_compile(m) ==
    Let(f_find(stack_check(m, 1)), LAMBDA v1 :
    Let(pop(v1), LAMBDA v2 :
        IF popv(v1) = TRUE_F
        THEN \* a word was found
             LET cfa == topv(v2)
             IN Let(f_immediate_q(top(v2)), LAMBDA w1 :
                Let(pop(w1), LAMBDA w2 :
                    IF popv(w1) = TRUE_F THEN f_d_interpret(push(w2, get(w2, pad_ptr)))
                    ELSE IF HasFlag(get(w2, Usize(cfa)), BUILTIN_FLAG)
                    THEN f_comma(push(get_chk(w2, Usize(cfa)), get(w2, Usize(cfa))))
                    ELSE f_comma(push(get_chk(w2, Usize(cfa)), cfa))))
        ELSE Let(f_number_q(v2), LAMBDA n1 :
                 IF popv(n1) = TRUE_F THEN f_literal(pop(n1))
                 ELSE f_abort(Warn(pop(pop(n1)), "$interpret: token not recognized")))))

\* ------------------------------------------------------------------------
\* console.rs and files.rs: reading a line.  `typed` is what read_line
\* gets from standard input when that is the source read: the bytes of a
\* line, or none at the end of the stream.
Min(a, b) == IF a < b THEN a ELSE b

Whitespace == {SPACE, NEWLINE, 9, 13}

RECURSIVE trim_end(_)
trim_end(text) ==
    IF Len(text) > 0 /\ text[Len(text)] \in Whitespace
    THEN trim_end(SubSeq(text, 1, Len(text) - 1))
    ELSE text

\* the bytes read_line appends: none at the end of the stream
read_line(fh, typed) ==
    IF fh.source = "Stdin" THEN typed
    ELSE IF fh.pos < Len(file_text(fh.name)) THEN file_text(fh.name)[fh.pos + 1]
    ELSE << >>

\* a handle that stays where it was after a line is read
get_line_in_place(fh, typed) ==
    [some |-> Len(read_line(fh, typed)) > 0,
     line |-> trim_end(read_line(fh, typed)),
     handle |-> fh]

\* FileHandle::get_line: the line without its trailing white space, or
\* nothing when no byte was read; the handle moves past what it read
get_line(fh, typed) ==
    LET new_line == read_line(fh, typed)
    IN [some |-> Len(new_line) > 0,
        line |-> trim_end(new_line),
        handle |-> IF fh.source = "BReader" /\ Len(new_line) > 0
                   THEN [fh EXCEPT !.pos = @ + 1] ELSE fh]

EndOfStream == << >>

\* accept dropping the source at its end whichever source it is
f_accept_popping(m, typed) ==
    Let(stack_check(m, 2), LAMBDA v0 :
    Let(pop(v0), LAMBDA v1 :
    IF ~Ok(v1) THEN v1
    ELSE IF v1.reader = << >> THEN Warn(v1, "accept: No input source available")
    ELSE
    Let(get_line(v1.reader[Len(v1.reader)], typed), LAMBDA l :
    LET dest == Usize(topv(v1))
        length == Min(Len(l.line), Usize(popv(v0)))
    IN IF l.some
       THEN push(string_save([top(v1) EXCEPT !.reader[Len(v1.reader)] = l.handle],
                             SubSeq(l.line, 1, length), dest), length)
       ELSE push([v1 EXCEPT !.reader = SubSeq(@, 1, Len(@) - 1)], 0))))

f_accept(m, typed) ==
    Let(stack_check(m, 2), LAMBDA v0 :
    Let(pop(v0), LAMBDA v1 :
    IF ~Ok(v1) THEN v1
    ELSE IF v1.reader = << >> THEN Warn(v1, "accept: No input source available")
    ELSE
    Let(get_line(v1.reader[Len(v1.reader)], typed), LAMBDA l :
    LET dest == Usize(topv(v1))
        length == Min(Len(l.line), Usize(popv(v0)))
    IN IF l.some
       THEN push(string_save([top(v1) EXCEPT !.reader[Len(v1.reader)] = l.handle],
                             SubSeq(l.line, 1, length), dest), length)
       ELSE IF Len(v1.reader) > 1
       THEN push([v1 EXCEPT !.reader = SubSeq(@, 1, Len(@) - 1)], 0)
       ELSE Panic(v1, "Reader error - EOF in stdin"))))

f_query(m, line) ==
    Let(m, LAMBDA vm :
    Let(f_accept(push(push(vm, get(vm, tib_ptr)), BUF_SIZE - 1), line), LAMBDA v1 :
        pop(set(set(pop(v1), tib_size_ptr, popv(v1)), tib_in_ptr, 1))))

\* an entry that starts one cell past the first cell of the body
i_definition_entry_past_first(m) ==
    Let(m, LAMBDA vm :
        [vm |-> f_to_r(push(pop(vm), 0)), pc |-> Usize(popv(vm)) + 1, call_depth |-> 1])

\* ------------------------------------------------------------------------
\* inner.rs: i_definition.  An activation is the pair of its locals.
i_definition_entry(m) ==
    Let(m, LAMBDA vm :
        [vm |-> f_to_r(push(pop(vm), 0)), pc |-> Usize(popv(vm)), call_depth |-> 1])

\* the offset counted from the cell before the offset cell
branch_target_from_branch_cell(vm, pc) == (pc - 1) + get(vm, pc)

\* pc moved by the signed offset in the cell at pc
branch_target(vm, pc) ==
    IF get(vm, pc) < 0 THEN pc - (0 - get(vm, pc)) ELSE pc + get(vm, pc)

\* r> then pc = pop()
return_to_caller(m) ==
    Let(f_r_from(m), LAMBDA v1 : [vm |-> pop(v1), pc |-> Usize(popv(v1))])

\* a turn whose BRANCH0, when it does not jump, forgets the offset cell
i_definition_step_no_skip(vm, pc, call_depth) ==
    LET code == IF pc < DATA_SIZE THEN get(vm, pc) ELSE pc
        Cont(v, p, d) == [vm |-> v, pc |-> p, call_depth |-> d, ret |-> FALSE, cell |-> TRUE]
        Back(v, d) == Let(return_to_caller(v), LAMBDA b : Cont(b.vm, b.pc, d))
    IN IF pc = 0 \/ get_abort_flag(vm)
       THEN [vm |-> set_return_ptr(vm, RET_START), pc |-> pc, call_depth |-> call_depth,
             ret |-> TRUE, cell |-> FALSE]
       ELSE CASE code = TAG_BUILTIN ->
                   Back(Warn(vm, "i_definition: Found BUILTIN???"), call_depth)
              [] code = TAG_VARIABLE -> Back(push(vm, pc + 1), call_depth)
              [] code = TAG_CONSTANT ->
                   Back(push(get_chk(vm, pc + 1), get(vm, pc + 1)), call_depth)
              [] code \in {TAG_LITERAL, TAG_STRLIT} ->
                   Cont(push(get_chk(vm, pc + 1), get(vm, pc + 1)), pc + 2, call_depth)
              [] code = TAG_DEFINITION -> Cont(vm, pc + 1, call_depth)
              [] code = TAG_BRANCH ->
                   Cont(get_chk(vm, pc + 1), branch_target(vm, pc + 1), call_depth)
              [] code = TAG_BRANCH0 ->
                   Let(pop(vm), LAMBDA v1 :
                       IF ~Ok(v1) THEN Cont(v1, pc, call_depth)
                       ELSE IF popv(vm) = 0
                       THEN Cont(get_chk(v1, pc + 1), branch_target(v1, pc + 1), call_depth)
                       ELSE Cont(v1, pc + 1, call_depth))
              [] code = TAG_ABORT ->
                   [vm |-> f_abort(vm), pc |-> pc, call_depth |-> call_depth,
                    ret |-> TRUE, cell |-> TRUE]
              [] code = TAG_EXIT ->
                   \* call_depth is a usize
                   IF call_depth = 0
                   THEN Let(return_to_caller(vm), LAMBDA b :
                            Cont(Overflow(b.vm, "attempt to subtract with overflow"),
                                 b.pc, USIZE_MAX))
                   ELSE Back(vm, call_depth - 1)
              [] code = TAG_BREAK -> Back(vm, call_depth)
              [] code = TAG_EXEC -> Cont(f_execute(vm), pc + 1, call_depth)
              [] OTHER ->
                   IF HasFlag(code, BUILTIN_FLAG) /\ Mask(Usize(code)) <= max_builtin(vm)
                   THEN Cont(builtin(vm, Mask(Usize(code))), pc + 1, call_depth)
                   ELSE Cont(f_to_r(push(vm, pc + 1)), Usize(code), call_depth + 1)

\* One turn of the loop.  ret: the function returned; cell: a cell was
\* decoded and executed in this turn.
i_definition_step(vm, pc, call_depth) ==
    LET code == IF pc < DATA_SIZE THEN get(vm, pc) ELSE pc
        Cont(v, p, d) == [vm |-> v, pc |-> p, call_depth |-> d, ret |-> FALSE, cell |-> TRUE]
        Back(v, d) == Let(return_to_caller(v), LAMBDA b : Cont(b.vm, b.pc, d))
    IN IF pc = 0 \/ get_abort_flag(vm)
       THEN [vm |-> set_return_ptr(vm, RET_START), pc |-> pc, call_depth |-> call_depth,
             ret |-> TRUE, cell |-> FALSE]
       ELSE CASE code = TAG_BUILTIN ->
                   Back(Warn(vm, "i_definition: Found BUILTIN???"), call_depth)
              [] code = TAG_VARIABLE -> Back(push(vm, pc + 1), call_depth)
              [] code = TAG_CONSTANT ->
                   Back(push(get_chk(vm, pc + 1), get(vm, pc + 1)), call_depth)
              [] code \in {TAG_LITERAL, TAG_STRLIT} ->
                   Cont(push(get_chk(vm, pc + 1), get(vm, pc + 1)), pc + 2, call_depth)
              [] code = TAG_DEFINITION -> Cont(vm, pc + 1, call_depth)
              [] code = TAG_BRANCH ->
                   Cont(get_chk(vm, pc + 1), branch_target(vm, pc + 1), call_depth)
              [] code = TAG_BRANCH0 ->
                   Let(pop(vm), LAMBDA v1 :
                       IF ~Ok(v1) THEN Cont(v1, pc, call_depth)
                       ELSE IF popv(vm) = 0
                       THEN Cont(get_chk(v1, pc + 1), branch_target(v1, pc + 1), call_depth)
                       ELSE Cont(v1, pc + 2, call_depth))
              [] code = TAG_ABORT ->
                   [vm |-> f_abort(vm), pc |-> pc, call_depth |-> call_depth,
                    ret |-> TRUE, cell |-> TRUE]
              [] code = TAG_EXIT ->
                   \* call_depth is a usize
                   IF call_depth = 0
                   THEN Let(return_to_caller(vm), LAMBDA b :
                            Cont(Overflow(b.vm, "attempt to subtract with overflow"),
                                 b.pc, USIZE_MAX))
                   ELSE Back(vm, call_depth - 1)
              [] code = TAG_BREAK -> Back(vm, call_depth)
              [] code = TAG_EXEC -> Cont(f_execute(vm), pc + 1, call_depth)
              [] OTHER ->
                   IF HasFlag(code, BUILTIN_FLAG) /\ Mask(Usize(code)) <= max_builtin(vm)
                   THEN Cont(builtin(vm, Mask(Usize(code))), pc + 1, call_depth)
                   ELSE Cont(f_to_r(push(vm, pc + 1)), Usize(code), call_depth + 1)

\* ------------------------------------------------------------------------
\* The interpreter as a state machine.
\*   ctl    where the host program is: "start" (run_forth not yet in
\*          f_quit), "quit" (top of the f_quit loop), "eval" (top of the
\*          f_eval loop), "idef" (top of the i_definition loop),
\*          "finished" (run_forth printed its exit message), "terminated"
\*          (a panic left run_forth), "hung" (a loop that does not end)
\*   idefs  the live i_definition activations, innermost last
\*   reader the input sources, the one read last (ForthRuntime::reader)
\*   nlines lines read from standard input so far
\*   last   what the last step did (history, no effect on the program):
\*          act the step; token: f_eval had a token to process; cell:
\*          i_definition executed a cell; compiling, flag, sp, depth: the
\*          compile mode, the abort flag, the data stack pointer and the
\*          activation's call_depth before the step; reabort: the step
\*          ran f_abort with the abort flag set; after_reabort: the line
\*          f_quit has just left had such a step; eof: f_quit met the
\*          end of standard input
\*          needed: the data stack items the word called needs
\*   reaborted      f_abort ran with the abort flag already set, while the
\*                  current line was evaluated (history)
\*   aborted_defs   name fields of the definitions whose compilation
\*                  raised ABORT on an unresolved token (history)
\*   completed      the definitions linked by ";" (history)
VARIABLES heap, strings, builtins, stack_ptr, return_ptr, string_ptr,
          control_stack, exit_flag, panic, msg, oob, release, reader,
          ctl, idefs, nlines, last, reaborted, aborted_defs, completed

vars == << heap, strings, builtins, stack_ptr, return_ptr, string_ptr,
           control_stack, exit_flag, panic, msg, oob, release, reader,
           ctl, idefs, nlines, last, reaborted, aborted_defs, completed >>

\* the machine at the start of a step: nothing printed yet
Machine ==
    [heap |-> heap, strings |-> strings, builtins |-> builtins,
     stack_ptr |-> stack_ptr, return_ptr |-> return_ptr,
     string_ptr |-> string_ptr, control_stack |-> control_stack,
     exit_flag |-> exit_flag, panic |-> panic, msg |-> {}, oob |-> oob,
     enter |-> FALSE, release |-> release, reader |-> reader]

Commit(r) ==
    /\ heap' = r.heap
    /\ strings' = r.strings
    /\ builtins' = r.builtins
    /\ stack_ptr' = r.stack_ptr
    /\ return_ptr' = r.return_ptr
    /\ string_ptr' = r.string_ptr
    /\ control_stack' = r.control_stack
    /\ exit_flag' = r.exit_flag
    /\ panic' = r.panic
    /\ msg' = r.msg
    /\ oob' = r.oob
    /\ release' = r.release
    /\ reader' = r.reader

NoStep ==
    [act |-> "none", token |-> FALSE, cell |-> FALSE, compiling |-> FALSE,
     flag |-> FALSE, depth |-> 0, sp |-> 0, reabort |-> FALSE,
     after_reabort |-> FALSE, needed |-> 0, net |-> 0, eof |-> FALSE]

\* the machine boot_forth hands to run_forth when no file is loaded
Booted(vm, builds) ==
    /\ heap = vm.heap
    /\ strings = vm.strings
    /\ builtins = vm.builtins
    /\ stack_ptr = vm.stack_ptr
    /\ return_ptr = vm.return_ptr
    /\ string_ptr = vm.string_ptr
    /\ control_stack = vm.control_stack
    /\ exit_flag = vm.exit_flag
    /\ panic = vm.panic
    /\ msg = {}
    /\ oob = FALSE
    /\ release \in builds
    /\ reader = vm.reader
    /\ idefs = << >>
    /\ nlines = 0
    /\ last = NoStep
    /\ reaborted = FALSE
    /\ aborted_defs = {}
    /\ completed = << >>

\* No line of ConsoleLines or ArenaLines reaches a usize overflow, the one
\* place where the two builds differ: the console runs are those of the
\* debug build, and InitBuiltin below starts from both.
Init ==
    /\ \E vm \in {cold_start} : Booted(vm, {FALSE})
    /\ ctl = "start"

\* ------------------------------------------------------------------------
\* Steps of the host program.  A panic unwinds to run_forth, which reports
\* it and re-raises it (resume_unwind): the process is gone.
AfterPanic(r, normal) ==
    IF r.panic = "none" THEN normal
    ELSE IF r.panic = "hang" THEN "hung"
    ELSE "terminated"

AbortMsg == "ABORT: Terminating execution"
UnresolvedMsg == "$interpret: token not recognized"

\* f_abort ran in this step although the abort flag was already set
Reabort(before, r) == get_abort_flag(before) /\ AbortMsg \in r.msg

\* run_forth up to the top of the f_quit loop
run_forth ==
    /\ ctl = "start"
    /\ \E r \in {f_abort(set_abort_flag(Machine, FALSE))} :
          /\ Commit(r)
          /\ ctl' = AfterPanic(r, "quit")
    /\ last' = [NoStep EXCEPT !.act = "run_forth"]
    /\ UNCHANGED << idefs, nlines, reaborted, aborted_defs, completed >>

\* one turn of the f_quit loop up to the call of f_eval: leave when the
\* exit flag is set, else clear the abort flag and read the line
f_quit(lines) ==
    /\ ctl = "quit"
    /\ \E line \in lines :
         LET from_console == reader[Len(reader)].source = "Stdin" IN
         IF should_exit(Machine)
         THEN /\ Commit(Machine)
              /\ ctl' = "finished"
              /\ last' = [NoStep EXCEPT !.act = "f_quit_exit"]
              /\ UNCHANGED << idefs, nlines, reaborted, aborted_defs, completed >>
         ELSE /\ from_console => nlines < MaxLines
              /\ \E r \in {f_query(set_abort_flag(Machine, FALSE), line)} :
                    /\ Commit(r)
                    /\ ctl' = AfterPanic(r, "eval")
              /\ nlines' = IF from_console THEN nlines + 1 ELSE nlines
              /\ last' = [NoStep EXCEPT !.act = "f_quit", !.after_reabort = reaborted,
                                        !.flag = get_abort_flag(Machine),
                                        !.sp = stack_ptr,
                                        !.eof = (from_console /\ line = EndOfStream)]
              /\ reaborted' = FALSE
              /\ UNCHANGED << idefs, aborted_defs, completed >>

\* the record ";" has just linked: its cells from the name field to the
\* back link, the name field without its flag bits
Snapshot(r) ==
    LET nfa == Usize(get(r, context_ptr))
        end == Usize(get(r, here_ptr)) - 1
    IN [nfa |-> nfa,
        cells |-> [i \in 1..(end - nfa + 1) |->
                      IF i = 1 THEN Mask(Usize(get(r, nfa))) ELSE get(r, nfa + i - 1)]]

\* one turn of the f_eval loop: parse a token; none left ends the line,
\* else compile or interpret it (up to the first turn of i_definition
\* when the token runs a definition)
f_eval ==
    /\ ctl = "eval"
    /\ \E v2 \in {f_parse_to(push(push(Machine, get(Machine, pad_ptr)), SPACE))} :
       \E v3 \in {pop(v2)} :
       \E r \in {IF popv(v2) = FALSE_F THEN pop(v3)
                 ELSE IF get_compile_mode(v3) THEN f_d_compile(v3)
                 ELSE f_d_interpret(v3)} :
       \E e \in {IF r.enter /\ Ok(r) THEN i_definition_entry([r EXCEPT !.enter = FALSE])
                 ELSE [vm |-> r, pc |-> 0, call_depth |-> 0]} :
       LET token == popv(v2) # FALSE_F
           compiling == get_compile_mode(v3)
           entered == r.enter /\ Ok(e.vm)
       IN /\ Commit(e.vm)
          /\ ctl' = AfterPanic(e.vm, IF ~token THEN "quit"
                                     ELSE IF entered THEN "idef" ELSE "eval")
          /\ idefs' = IF entered THEN << [pc |-> e.pc, call_depth |-> e.call_depth] >>
                      ELSE << >>
          /\ last' = [NoStep EXCEPT !.act = "f_eval", !.token = token,
                                    !.compiling = compiling,
                                    !.reabort = Reabort(Machine, e.vm),
                                    !.flag = get_abort_flag(Machine),
                                    !.sp = stack_ptr]
          /\ reaborted' = (reaborted \/ Reabort(Machine, e.vm))
          /\ aborted_defs' =
               IF token /\ compiling /\ UnresolvedMsg \in e.vm.msg
               THEN aborted_defs \cup {Usize(get(Machine, last_ptr))}
               ELSE aborted_defs
          /\ completed' =
               IF /\ token /\ compiling /\ Ok(e.vm)
                  /\ ~get_compile_mode(e.vm)
                  /\ get(e.vm, context_ptr) # get(Machine, context_ptr)
               THEN Append(completed, Snapshot(e.vm))
               ELSE completed
    /\ UNCHANGED nlines

\* one turn of the loop of the innermost i_definition activation
i_definition ==
    /\ ctl = "idef"
    /\ idefs # << >>
    /\ \E s \in {i_definition_step(Machine, idefs[Len(idefs)].pc,
                                   idefs[Len(idefs)].call_depth)} :
       \E e \in {IF s.vm.enter /\ Ok(s.vm)
                 THEN i_definition_entry([s.vm EXCEPT !.enter = FALSE])
                 ELSE [vm |-> [s.vm EXCEPT !.enter = FALSE], pc |-> 0, call_depth |-> 0]} :
       LET n == Len(idefs)
           nested == s.vm.enter /\ Ok(s.vm)
           here == [pc |-> s.pc, call_depth |-> s.call_depth]
       IN /\ nested => n < MaxHostDepth
          /\ Commit(e.vm)
          /\ idefs' = IF ~Ok(e.vm) THEN << >>
                      ELSE IF nested
                      THEN Append([idefs EXCEPT ![n] = here],
                                  [pc |-> e.pc, call_depth |-> e.call_depth])
                      ELSE IF s.ret THEN SubSeq(idefs, 1, n - 1)
                      ELSE [idefs EXCEPT ![n] = here]
          /\ ctl' = AfterPanic(e.vm, IF s.ret /\ n = 1 THEN "eval" ELSE "idef")
          /\ last' = [NoStep EXCEPT !.act = "i_definition", !.cell = s.cell,
                                    !.flag = get_abort_flag(Machine),
                                    !.depth = idefs[n].call_depth,
                                    !.reabort = Reabort(Machine, e.vm),
                                    !.sp = stack_ptr]
          /\ reaborted' = (reaborted \/ Reabort(Machine, e.vm))
    /\ UNCHANGED << nlines, aborted_defs, completed >>

\* Lines typed at the console.
L_sq_times == Line(<< W_colon, W_sq, W_dup, W_times, W_semicolon >>)
L_sq_plus == Line(<< W_colon, W_sq, W_dup, W_plus, W_semicolon >>)
L_run_sq == Line(<< Num(3), W_sq >>)
L_ab == Line(<< W_colon, W_ab, W_abort, Num(7), W_semicolon >>)
L_g == Line(<< W_create, W_g, Num(TAG_DEFINITION), W_comma, Num(TAG_ABORT), W_comma,
               W_semicolon >>)
L_h_ab == Line(<< W_colon, W_h, W_ab, Num(8), W_semicolon >>)
L_h_g == Line(<< W_colon, W_h, W_g, Num(8), W_semicolon >>)
L_run_h == Line(<< W_h, Num(9) >>)
L_abort_twice == Line(<< W_abort, W_abort, Num(5) >>)
L_foo == Line(<< Num(4), W_foo, Num(5) >>)
L_dup == Line(<< W_dup >>)
L_r_from == Line(<< W_r_from, W_drop >>)
L_fetch == Line(<< Num(-1), W_fetch, Num(4) >>)
L_bye == Line(<< W_bye >>)

ConsoleLines ==
    { L_sq_times, L_sq_plus, L_run_sq, L_ab, L_g, L_h_ab, L_h_g, L_run_h,
      L_abort_twice, L_foo, L_dup, L_r_from, L_fetch, L_bye }

Next ==
    \/ run_forth
    \/ f_quit(ConsoleLines)
    \/ f_eval
    \/ i_definition

Spec == Init /\ [][Next]_vars

\* ------------------------------------------------------------------------
\* Properties
AbortFlag == heap[abort_ptr] # FALSE_F
DataDepth == STACK_START - stack_ptr

\* C1: when ABORT is raised by a cell of a running definition, at whatever
\* call depth, that step leaves the data stack empty, the return stack
\* pointer at RET_START and the abort flag set; and a turn of the inner
\* interpreter that starts with the abort flag set executes no cell: the
\* activation returns, the return stack pointer is RET_START and the data
\* stack and the heap are as they were.
C1_AbortUnwindsDefinition ==
    [][ ctl = "idef" =>
          /\ (AbortFlag /\ panic' = "none") =>
                /\ ~last'.cell
                /\ Len(idefs') = Len(idefs) - 1
                /\ return_ptr' = RET_START
                /\ stack_ptr' = stack_ptr
                /\ heap' = heap
          /\ (~AbortFlag /\ AbortFlag') =>
                /\ stack_ptr' = STACK_START
                /\ return_ptr' = RET_START
                /\ AbortMsg \in msg'
      ]_vars

\* ABORT was raised by a cell two calls deep, and the interpreter is back
\* in f_eval with both stacks empty
C1_Witness ==
    /\ last.act = "i_definition"
    /\ ~last.cell
    /\ last.flag
    /\ last.depth >= 2
    /\ ctl = "eval"
    /\ AbortFlag
    /\ stack_ptr = STACK_START
    /\ return_ptr = RET_START

\* C2: once the abort flag is set, f_eval processes no further token of the
\* line; and f_quit hands a line to f_eval with the abort flag cleared.
C2_AbortDiscardsLine ==
    [][ /\ (ctl = "eval" /\ AbortFlag) => ~(last'.act = "f_eval" /\ last'.token)
        /\ (last'.act = "f_quit") => ~AbortFlag'
      ]_vars

\* C3: f_abort with the abort flag already set leaves both stacks empty and
\* the flag set, and the evaluation of the next line starts with both
\* stacks empty and the flag cleared.
C3_AbortIdempotent ==
    /\ last.reabort =>
          (stack_ptr = STACK_START /\ return_ptr = RET_START /\ AbortFlag)
    /\ (last.act = "f_quit" /\ last.after_reabort) =>
          (stack_ptr = STACK_START /\ return_ptr = RET_START /\ ~AbortFlag)

\* C4: a stack underflow detected by a word is logged and raises ABORT
\* (stacks emptied, flag set); the process does not terminate.
C4_UnderflowAborts ==
    panic = "Stack underflow" =>
        /\ ctl # "terminated"
        /\ AbortFlag
        /\ stack_ptr = STACK_START
        /\ return_ptr = RET_START

\* FIND of the name of the record at nfa resolves to that record
Resolves(nfa) ==
    \E r \in {f_find(push([Machine EXCEPT !.panic = "none"], Mask(Usize(heap[nfa]))))} :
        popv(r) = TRUE_F /\ popv(pop(r)) = nfa + 1

\* C6: a definition whose compilation raised ABORT on an unresolved token
\* is never linked: FIND of its name never resolves to it, whatever follows.
C6_AbortedDefinitionNotLinked ==
    \A nfa \in aborted_defs : ~Resolves(nfa)

SameName(i, j) == string_equal(Machine, completed[i].cells[1], completed[j].cells[1])
Latest(i) ==
    CHOOSE j \in 1..Len(completed) :
        /\ SameName(i, j)
        /\ \A k \in 1..Len(completed) : SameName(i, k) => k <= j
Intact(i) ==
    \A k \in 1..Len(completed[i].cells) :
        completed[i].cells[k] =
            IF k = 1 THEN Mask(Usize(heap[completed[i].nfa]))
            ELSE heap[completed[i].nfa + k - 1]

\* C8: of the definitions of one name that ";" has linked, FIND resolves
\* to the code field of the most recent; an earlier one stays in the
\* arena, its cells unchanged.
C8_LatestDefinitionShadows ==
    \A i \in 1..Len(completed) :
        /\ Resolves(completed[Latest(i)].nfa)
        /\ Intact(i)

\* sq was defined as dup * and then as dup +, and "3 sq" has left 6
C8_Witness ==
    /\ \E i, j \in 1..Len(completed) :
          i < j /\ SameName(i, j) /\ completed[i].cells # completed[j].cells
    /\ last.act = "i_definition"
    /\ ctl = "eval"
    /\ DataDepth = 1
    /\ heap[stack_ptr] = 6

\* C10: the return stack pointer stays in (STACK_START, RET_START].
C10_ReturnPointerInRange ==
    return_ptr > STACK_START /\ return_ptr <= RET_START

\* ------------------------------------------------------------------------
\* The stack words called one at a time, as the tests of general.rs call
\* them: some values are pushed on the machine cold_start leaves, then one
\* word runs.
\* the deepest stack the word is given
MaxStack == 3
StackValues == {-1, 0, 1, 2}
StackWords ==
    {"+", "-", "*", "/", "mod", "<", "=", "0=", "0<", "and", "or", "dup", "drop",
     "swap", "over", "rot", "pick", "roll", "@", "!", ">r"}

RECURSIVE setup_stack(_, _)
setup_stack(m, vals) ==
    Let(m, LAMBDA vm :
        IF Len(vals) = 0 THEN vm ELSE setup_stack(push(vm, Head(vals)), Tail(vals)))

\* the function add_builtins binds to the word
call_word(vm, w) ==
    CASE w = "+" -> f_plus(vm)
      [] w = "-" -> f_minus(vm)
      [] w = "*" -> f_times(vm)
      [] w = "/" -> f_divide(vm)
      [] w = "mod" -> f_mod(vm)
      [] w = "<" -> f_less(vm)
      [] w = "=" -> f_equal(vm)
      [] w = "0=" -> f_0equal(vm)
      [] w = "0<" -> f_0less(vm)
      [] w = "and" -> f_and(vm)
      [] w = "or" -> f_or(vm)
      [] w = "dup" -> f_dup(vm)
      [] w = "drop" -> f_drop(vm)
      [] w = "swap" -> f_swap(vm)
      [] w = "over" -> f_over(vm)
      [] w = "rot" -> f_rot(vm)
      [] w = "pick" -> f_pick(vm)
      [] w = "roll" -> f_roll(vm)
      [] w = "@" -> f_get(vm)
      [] w = "!" -> f_store(vm)
      [] w = ">r" -> f_to_r(vm)

\* the items the word's stack effect asks for, as add_builtins documents
\* it.  pick and roll take their count n from the top of the stack and
\* then need n + 1 more items (0 roll is a no-op); a count no stack can
\* hold is given as DATA_SIZE.
stack_effect_needs(vm, w) ==
    LET n == Usize(topv(vm))
        counted == IF n >= DATA_SIZE THEN DATA_SIZE ELSE n + 2
    IN CASE w \in {"0=", "0<", "dup", "drop", "@", ">r"} -> 1
         [] w \in {"+", "-", "*", "/", "mod", "<", "=", "and", "or", "swap", "over", "!"} -> 2
         [] w = "rot" -> 3
         [] w = "pick" -> IF stack_len(vm) = 0 THEN 1 ELSE counted
         [] w = "roll" -> IF stack_len(vm) = 0 \/ n = 0 THEN 1 ELSE counted

InitBuiltin ==
    /\ \E depth \in 0..MaxStack : \E vals \in [1..depth -> StackValues] :
       \E vm \in {setup_stack(cold_start, vals)} : Booted(vm, BOOLEAN)
    /\ ctl = "test"

call_builtin ==
    /\ ctl = "test"
    /\ \E w \in StackWords : \E r \in {call_word(Machine, w)} :
          /\ Commit(r)
          /\ ctl' = AfterPanic(r, "tested")
          /\ last' = [NoStep EXCEPT !.act = w, !.depth = stack_len(Machine),
                                    !.needed = stack_effect_needs(Machine, w),
                                    !.sp = stack_ptr]
    /\ UNCHANGED << idefs, nlines, reaborted, aborted_defs, completed >>

NextBuiltin == call_builtin

SpecBuiltin == InitBuiltin /\ [][NextBuiltin]_vars

\* C5: a stack word called with fewer items than it needs ends in the
\* error path (a panic; the state keeps it) and has read no cell at or
\* above STACK_START as a stack item.
C5_UnderflowPathTaken ==
    (last.act \in StackWords /\ last.depth < last.needed) =>
        (panic # "none" /\ ~oob)

\* ------------------------------------------------------------------------
\* The arena filled from the console: numbers pushed fifteen a line, and a
\* definition compiled and run.
L_fifteen == Line([i \in 1..15 |-> Num(1)])

ArenaLines == { L_fifteen, L_sq_times, L_run_sq }

NextArena ==
    \/ run_forth
    \/ f_quit(ArenaLines)
    \/ f_eval
    \/ i_definition

SpecArena == Init /\ [][NextArena]_vars

\* C9: HERE, the dictionary's free pointer, is below the data stack
\* pointer in every state.
C9_HereBelowStack == heap[here_ptr] < stack_ptr

\* ------------------------------------------------------------------------
\* Literals from the console: a line compiles k with the number n as its
\* body and runs it at once under a 7.
LiteralValues ==
    {-1, 0, 5, TAG_LITERAL, TAG_EXIT, TAG_ABORT, BUILTIN_FLAG + 4}
L_literal(n) == Line(<< W_colon, W_k, Num(n), W_semicolon, Num(7), W_k >>)
LiteralLines == { L_literal(n) : n \in LiteralValues }

NextLiteral ==
    \/ run_forth
    \/ f_quit(LiteralLines)
    \/ f_eval
    \/ i_definition

SpecLiteral == Init /\ [][NextLiteral]_vars

\* the line in the text input buffer
TibText == string_get(Machine, Usize(heap[tib_ptr]))

\* C11: when the k of the line ": k n ; 7 k" has run, the record compiled
\* for it holds LITERAL and n, n is on top of the data stack, the 7 is
\* beneath it, and the items the earlier lines left are as they were.
C11_LiteralRoundTrip ==
    (ctl = "eval" /\ last.act = "i_definition") =>
        /\ panic = "none"
        /\ ~AbortFlag
        /\ Len(completed) = nlines
        /\ \A n \in LiteralValues :
              TibText = L_literal(n) =>
                  /\ completed[nlines].cells[3] = TAG_LITERAL
                  /\ completed[nlines].cells[4] = n
        /\ DataDepth = 2 * nlines
        /\ \A j \in 1..nlines :
              /\ heap[STACK_START - (2 * j)] = completed[j].cells[4]
              /\ heap[(STACK_START - (2 * j)) + 1] = 7

\* three lines have run, the last with the EXIT tag as its number
C11_Witness ==
    /\ ctl = "eval"
    /\ last.act = "i_definition"
    /\ nlines = MaxLines
    /\ TibText = L_literal(TAG_EXIT)
    /\ heap[stack_ptr] = TAG_EXIT
    /\ DataDepth = 2 * MaxLines

\* ------------------------------------------------------------------------
\* The arithmetic and stack words called one after another on the same
\* machine, each with the items its stack effect asks for.
\* the most words called in a row
MaxCalls == 2
SequenceValues == {0, 2}
EffectWords ==
    {"+", "-", "*", "/", "mod", "<", "=", "and", "or", "0=", "0<", "dup", "over",
     "drop", "swap", "rot"}

\* the net change of depth each word's stack effect declares
stack_effect_net(w) ==
    CASE w \in {"+", "-", "*", "/", "mod", "<", "=", "and", "or", "drop"} -> -1
      [] w \in {"0=", "0<", "swap", "rot"} -> 0
      [] w \in {"dup", "over"} -> 1

InitSequence ==
    /\ \E depth \in 0..MaxStack : \E vals \in [1..depth -> SequenceValues] :
       \E vm \in {setup_stack(cold_start, vals)} : Booted(vm, {FALSE})
    /\ ctl = "test"

\* one more word of the sequence; last.depth keeps the depth the sequence
\* started with and last.net the sum of the net effects so far
call_sequence ==
    /\ ctl = "test"
    /\ nlines < MaxCalls
    /\ \E w \in EffectWords :
          /\ stack_len(Machine) >= stack_effect_needs(Machine, w)
          /\ \E r \in {call_word(Machine, w)} :
                /\ Commit(r)
                /\ ctl' = AfterPanic(r, "test")
                /\ last' = [NoStep EXCEPT
                               !.act = w,
                               !.depth = IF nlines = 0 THEN stack_len(Machine)
                                         ELSE last.depth,
                               !.net = last.net + stack_effect_net(w),
                               !.sp = stack_ptr]
    /\ nlines' = nlines + 1
    /\ UNCHANGED << idefs, reaborted, aborted_defs, completed >>

NextSequence == call_sequence

SpecSequence == InitSequence /\ [][NextSequence]_vars

load_file(vm, file_name) ==
    f_include_file(push(string_set(vm, Usize(get(vm, tmp_ptr)), file_name),
                        get(vm, tmp_ptr)))

\* boot_forth without the core files; no file is loaded when the name is
\* empty
boot_forth(loaded_file) ==
    IF loaded_file = << >> THEN cold_start
    ELSE pop(load_file(cold_start, loaded_file))

LoadedFiles == { << >>, W_fa, W_fd }

InitSources ==
    /\ \E loaded_file \in LoadedFiles :
       \E vm \in {boot_forth(loaded_file)} : Booted(vm, {FALSE})
    /\ ctl = "start"

L_one == Line(<< Num(1) >>)
L_name_c == Line(<< W_tmp, W_fetch, Num32, W_parse_to, W_fc, W_drop >>)
L_include == Line(<< W_include_file >>)

SourceLines == { L_one, L_name_c, L_include, L_bye, EndOfStream }

NextSources ==
    \/ run_forth
    \/ f_quit(SourceLines)
    \/ f_eval
    \/ i_definition

SpecSources == InitSources /\ [][NextSources]_vars

\* the source f_accept reads
ActiveSource == reader[Len(reader)]

\* the items of the data stack, the oldest first
DataStack == [i \in 1..DataDepth |-> heap[STACK_START - i]]

\* C13: f_quit reads its line from the source on top of the stack of
\* sources.  A file with a line left gives that line and moves past it,
\* the sources beneath staying where they were; a file at its end is
\* popped and gives an empty line, so that the next line read is the next
\* unread line of the source beneath, the console when no file is left.
C13_LinesFromTopSource ==
    [][(ctl = "quit" /\ last'.act = "f_quit" /\ ActiveSource.source = "BReader") =>
          LET text == file_text(ActiveSource.name)
              pos == ActiveSource.pos
          IN IF pos < Len(text)
             THEN /\ reader' = [reader EXCEPT ![Len(reader)].pos = pos + 1]
                  /\ TibText' = SubSeq(text[pos + 1], 1, Len(text[pos + 1]) - 1)
                  /\ heap'[tib_size_ptr] = Len(text[pos + 1]) - 1
             ELSE /\ reader' = SubSeq(reader, 1, Len(reader) - 1)
                  /\ heap'[tib_size_ptr] = 0]_vars

\* a was loaded and read to its end, b within it: the stack holds what
\* their lines left, in the order the lines were read
C13_Witness ==
    /\ reader = << StdinHandle >>
    /\ last.act = "f_quit"
    /\ nlines = 0
    /\ DataStack = << 2, TRUE_F, 3, 5, 6, 4 >>

\* C14: the stack of sources is never empty and standard input is its
\* bottom entry, under nothing but files.
C14_RootSourceStays ==
    /\ Len(reader) >= 1
    /\ reader[1] = StdinHandle
    /\ \A i \in 2..Len(reader) : reader[i].source = "BReader"

\* the last file has been popped at its end, and then standard input
\* itself has ended
C14_Witness ==
    /\ last.act = "f_quit"
    /\ last.eof
    /\ reader = << StdinHandle >>
    /\ nlines = 1
    /\ DataDepth >= 6
    /\ SubSeq(DataStack, 1, 6) = << 2, TRUE_F, 3, 5, 6, 4 >>

\* C15: when standard input, the root source, is at its end, f_quit
\* returns to run_forth without an error.
C15_RootEndOfStreamReturns ==
    (last.act = "f_quit" /\ last.eof) => (panic = "none" /\ ctl = "finished")

\* C16: the exit flag, once set, stays set, and f_quit then returns without
\* reading a line: no source is read or popped and no buffer is written.
C16_ByeEndsQuit ==
    [][/\ exit_flag => exit_flag'
       /\ (exit_flag /\ ctl = "quit") =>
             /\ ctl' = "finished"
             /\ reader' = reader
             /\ strings' = strings
             /\ heap' = heap
             /\ stack_ptr' = stack_ptr]_vars

\* bye was read from c, loaded by d: f_quit has returned with three sources
\* on the stack, c's second line unread
C16_Witness ==
    /\ ctl = "finished"
    /\ exit_flag
    /\ Len(reader) = 3
    /\ ActiveSource = [BReader(W_fc) EXCEPT !.pos = 1]
    /\ DataStack = << TRUE_F, 7, 8 >>

\* ------------------------------------------------------------------------
\* The token f_eval is about to take from the input buffer, as f_parse_to
\* leaves it in PAD
NextToken ==
    LET v == f_parse_to(push(push(Machine, get(Machine, pad_ptr)), SPACE))
    IN [found |-> popv(v) # FALSE_F,
        text |-> string_get(v, Usize(get(Machine, pad_ptr)))]

CompileMode == heap[state_ptr] # FALSE_F

\* the cells of the variables that : and ; and the parser update
BookkeepingCells == {here_ptr, context_ptr, last_ptr, state_ptr, tib_in_ptr}

\* Definitions typed at the console: one that compiles, one that aborts on
\* an unresolved token while it compiles, one built with create and closed
\* by `;`, one whose body is abort, and a line that runs a definition.
CompileLines == { L_sq_times, L_h_g, L_g, L_ab, L_run_sq }

NextCompile ==
    \/ run_forth
    \/ f_quit(CompileLines)
    \/ f_eval
    \/ i_definition

SpecCompile == Init /\ [][NextCompile]_vars

\* C17: the step that executes `:` turns compile mode on, puts the name
\* cell of a new header at HERE (LAST points to it) and DEFINITION after
\* it; the step that executes `;` appends EXIT and the back pointer, which
\* points to the last cell of the record before this one, moves HERE past
\* it, sets CONTEXT to the new name cell, turns compile mode off and
\* changes no other cell of the dictionary.  No other step changes the
\* compile mode, in particular not abort, the end of a line or a step of a
\* definition.
C17_ColonSemicolonBookkeeping ==
    [][IF ctl = "eval" /\ panic' = "none" /\ NextToken.found
       THEN LET here == heap[here_ptr]
                name == heap'[here]
                pad == heap[pad_ptr]
            IN IF NextToken.text = W_colon /\ ~CompileMode
               THEN /\ CompileMode'
                    /\ heap'[last_ptr] = here
                    /\ [i \in 1..strings'[name] |-> strings'[name + i]]
                          = [i \in 1..strings'[pad] |-> strings'[pad + i]]
                    /\ heap'[here + 1] = TAG_DEFINITION
                    /\ heap'[here_ptr] = here + 2
                    /\ heap'[context_ptr] = heap[context_ptr]
               ELSE IF NextToken.text = W_semicolon
               THEN /\ ~CompileMode'
                    /\ heap'[here] = TAG_EXIT
                    /\ heap'[here + 1] = heap[last_ptr] - 1
                    /\ heap'[here_ptr] = here + 2
                    /\ heap'[context_ptr] = heap[last_ptr]
                    /\ heap'[last_ptr] = heap[last_ptr]
                    /\ \A a \in (WORD_START..(here - 1)) \ BookkeepingCells :
                          heap'[a] = heap[a]
               ELSE CompileMode' = CompileMode
       ELSE CompileMode' = CompileMode]_vars

\* a definition opened in one step has been closed in this one, as the
\* third on the dictionary: its record ends with EXIT and the back pointer
C17_Witness ==
    /\ last.act = "f_eval"
    /\ last.compiling
    /\ ~CompileMode
    /\ Len(completed) = MaxLines
    /\ heap[context_ptr] = heap[last_ptr]
    /\ heap[heap[here_ptr] - 2] = TAG_EXIT
    /\ heap[heap[here_ptr] - 1] = heap[context_ptr] - 1
    /\ heap[heap[context_ptr] + 1] = TAG_DEFINITION

\* ------------------------------------------------------------------------
\* Immediate words at the console: sq is defined, made immediate, run, and
\* named inside a later definition.
L_immediate == Line(<< W_immediate >>)
L_h_sq == Line(<< W_colon, W_h, W_sq, Num(8), W_semicolon >>)

ImmediateLines == { L_sq_times, L_immediate, L_run_sq, L_h_sq }

NextImmediate ==
    \/ run_forth
    \/ f_quit(ImmediateLines)
    \/ f_eval
    \/ i_definition

SpecImmediate == Init /\ [][NextImmediate]_vars

\* C18: the step that executes `immediate` sets the immediate flag in the
\* name cell CONTEXT points to, the cell of the most recent word, keeps the
\* name's address in it, and changes no other cell of the dictionary (the
\* parser moves >IN).  After it immediate? on the word's code field is
\* TRUE, FIND resolves the name to the same code field as before, and a
\* second immediate changes nothing.
C18_ImmediateSetsFlagOnly ==
    [][(ctl = "eval" /\ NextToken.found /\ NextToken.text = W_immediate
            /\ ~CompileMode /\ panic' = "none") =>
          LET nfa == heap[context_ptr]
              name == Mask(Usize(heap[nfa]))
          IN /\ HasFlag(heap'[nfa], IMMEDIATE_FLAG)
             /\ Mask(Usize(heap'[nfa])) = name
             /\ \A a \in (0..(heap[here_ptr] - 1)) \ {nfa, tib_in_ptr} :
                   heap'[a] = heap[a]
             /\ \A i \in STR_START..(STRING_SIZE - 1) : strings'[i] = strings[i]
             /\ stack_ptr' = stack_ptr
             /\ return_ptr' = return_ptr
             /\ popv(f_immediate_q(push(Machine', nfa + 1))) = TRUE_F
             /\ popv(f_find(push(Machine, name))) = TRUE_F
             /\ popv(pop(f_find(push(Machine, name)))) = nfa + 1
             /\ popv(f_find(push(Machine', name))) = TRUE_F
             /\ popv(pop(f_find(push(Machine', name)))) = nfa + 1
             /\ f_immediate(Machine') = Machine']_vars

\* sq, defined twice, has just been made immediate: the flag is on its
\* second record
C18_Witness ==
    /\ last.act = "f_eval"
    /\ last.token
    /\ ~last.compiling
    /\ string_get(Machine, heap[pad_ptr]) = W_immediate
    /\ Len(completed) = 2
    /\ heap[context_ptr] = completed[2].nfa
    /\ HasFlag(heap[heap[context_ptr]], IMMEDIATE_FLAG)
    /\ string_get(Machine, Mask(Usize(heap[heap[context_ptr]]))) = W_sq

\* ------------------------------------------------------------------------
\* Aborts at the console: ab aborts in its body, h calls ab, and they run
\* over a number on the data stack; h typed before ab exists aborts while
\* it compiles.
L_five_ab == Line(<< Num(5), W_ab >>)

AbortLines == { L_ab, L_five_ab, L_h_ab, L_run_h }

NextAbort ==
    \/ run_forth
    \/ f_quit(AbortLines)
    \/ f_eval
    \/ i_definition

SpecAbort == Init /\ [][NextAbort]_vars

\* C19: f_abort applied to the machine of any state writes the abort flag
\* and no other cell of the arena, no string and no source, and resets
\* both stack pointers; and the step in which abort ran leaves every cell
\* below HERE (HERE, CONTEXT, LAST and the records among them) as it was,
\* but the abort flag and the parser's >IN.
C19_AbortKeepsDictionary ==
    [][/\ f_abort(Machine).heap = [heap EXCEPT ![abort_ptr] = TRUE_F]
       /\ f_abort(Machine).strings = strings
       /\ f_abort(Machine).string_ptr = string_ptr
       /\ f_abort(Machine).reader = reader
       /\ f_abort(Machine).stack_ptr = STACK_START
       /\ f_abort(Machine).return_ptr = RET_START
       /\ (AbortMsg \in msg' /\ panic' = "none") =>
             /\ \A a \in (0..(heap[here_ptr] - 1)) \ {abort_ptr, tib_in_ptr} :
                   heap'[a] = heap[a]
             /\ heap'[abort_ptr] = TRUE_F
             /\ stack_ptr' = STACK_START
             /\ return_ptr' = RET_START]_vars

\* abort has just run in the body of a definition called with an item on
\* the data stack: both stacks are empty and the definitions are linked
\* as before
C19_Witness ==
    /\ last.act = "i_definition"
    /\ AbortMsg \in msg
    /\ last.sp < STACK_START
    /\ stack_ptr = STACK_START
    /\ return_ptr = RET_START
    /\ AbortFlag
    /\ Len(completed) >= 1
    /\ heap[context_ptr] = completed[Len(completed)].nfa

\* ------------------------------------------------------------------------
\* number? called on a token in PAD, with BASE holding one of several
\* bases.
NumberValues == {0, 5, 10, -12, 101}
OtherTokens ==
    { <<43, 55>>, <<48, 55, 55>>, <<102, 102>>, <<49, 102>>, <<122>>, << >>,
      <<45>>, <<43>>, <<57, 97>>, <<45, 97>> }
NumberTokens == { Num(n) : n \in NumberValues } \cup OtherTokens
Bases == {2, 8, 10, 16}

InitNumber ==
    /\ \E token \in NumberTokens : \E b \in Bases :
       \E v1 \in {string_save(cold_start, token, Usize(get(cold_start, pad_ptr)))} :
       \E vm \in {push(set(v1, base_ptr, b), get(v1, pad_ptr))} :
          Booted(vm, {FALSE})
    /\ ctl = "test"

call_number_q ==
    /\ ctl = "test"
    /\ \E r \in {f_number_q(Machine)} :
          /\ Commit(r)
          /\ ctl' = AfterPanic(r, "tested")
    /\ last' = [NoStep EXCEPT !.act = "number?", !.sp = stack_ptr]
    /\ UNCHANGED << idefs, nlines, reaborted, aborted_defs, completed >>

NextNumber == call_number_q

SpecNumber == InitNumber /\ [][NextNumber]_vars

\* C20: number? leaves the same two items, the same stack pointer and the
\* same outcome whatever value BASE holds; a token that is the decimal
\* text of n gives n and TRUE, and a token refused gives back its address
\* and FALSE.  BASE itself is not written.
C20_NumberIgnoresBase ==
    [][(ctl = "test" /\ ctl' = "tested") =>
          LET token == string_get(Machine, Usize(heap[stack_ptr]))
          IN /\ \A b \in Bases :
                   /\ f_number_q(set(Machine, base_ptr, b)).stack_ptr = stack_ptr'
                   /\ f_number_q(set(Machine, base_ptr, b)).heap[stack_ptr']
                         = heap'[stack_ptr']
                   /\ f_number_q(set(Machine, base_ptr, b)).heap[stack_ptr' + 1]
                         = heap'[stack_ptr' + 1]
                   /\ f_number_q(set(Machine, base_ptr, b)).panic = panic'
             /\ \A n \in NumberValues :
                   token = Num(n) =>
                      (heap'[stack_ptr'] = TRUE_F /\ heap'[stack_ptr' + 1] = n)
             /\ heap'[stack_ptr'] \in {TRUE_F, FALSE_F}
             /\ heap'[stack_ptr'] = FALSE_F => heap'[stack_ptr' + 1] = heap[stack_ptr]
             /\ heap'[base_ptr] = heap[base_ptr]]_vars

\* with BASE at sixteen the token 10 has been read as ten
C20_Witness ==
    /\ ctl = "tested"
    /\ last.act = "number?"
    /\ heap[base_ptr] = 16
    /\ string_get(Machine, Usize(heap[pad_ptr])) = Num(10)
    /\ heap[stack_ptr] = TRUE_F
    /\ heap[stack_ptr + 1] = 10

\* ------------------------------------------------------------------------
\* Builtins registered after cold_start and called through their
\* code-field cell, as test_add_builtin and test_add_and_call_builtin of
\* runtime.rs do.
\* the words registered after boot, in this order
ExtraBuiltins ==
    << [name |-> W_x, code |-> "f_plus"],
       [name |-> W_k, code |-> "f_dup"],
       [name |-> W_sq, code |-> "f_drop"],
       [name |-> W_foo, code |-> "f_times"] >>
Registered == BuiltinsFirst \o ExtraBuiltins

RegisterValues == {1, 2}

InitRegister ==
    /\ \E depth \in 0..MaxCalls : \E vals \in [1..depth -> RegisterValues] :
       \E vm \in {setup_stack(cold_start, vals)} : Booted(vm, {FALSE})
    /\ ctl = "test"

\* runtime.add_builtin(name, code, doc)
call_add_builtin ==
    /\ ctl = "test"
    /\ Len(builtins) < Len(BuiltinsFirst) + MaxCalls
    /\ \E b \in {Registered[Len(builtins) + 1]} :
       \E r \in {add_builtin(Machine, b.name, b.code)} :
          /\ Commit(r)
          /\ ctl' = AfterPanic(r, "test")
          /\ last' = [NoStep EXCEPT !.act = "add_builtin",
                                    !.needed = Len(builtins),
                                    !.sp = make_word_ret(Machine)]
    /\ UNCHANGED << idefs, nlines, reaborted, aborted_defs, completed >>

RECURSIVE word_named(_, _, _, _)
\* the code field of the newest word of the dictionary with this name, 0
\* when there is none
word_named(vm, name, link, fuel) ==
    IF link <= 0 \/ fuel = 0 \/ ~InHeap(link + 2) THEN 0
    ELSE IF string_get(vm, Mask(Usize(get(vm, link + 1)))) = name THEN link + 2
    ELSE word_named(vm, name, Usize(get(vm, link)), fuel - 1)
CodeField(vm, name) == word_named(vm, name, Usize(get(vm, context_ptr)) - 1, DATA_SIZE)

\* rt.builtin(rt.kernel.get(addr) as usize & ADDRESS_MASK) for the word of
\* a registered name.  No value of these stacks is the address of a colon
\* definition, so execute enters none.
call_dispatch ==
    /\ ctl = "test"
    /\ \E i \in 1..Len(builtins) :
       \E addr \in {CodeField(Machine, Registered[i].name)} :
       \E r \in {builtin(Machine, Mask(Usize(get(Machine, addr))))} :
          /\ Commit(r)
          /\ ctl' = AfterPanic(r, "tested")
          /\ last' = [NoStep EXCEPT !.act = "builtin", !.needed = i - 1,
                                    !.depth = stack_len(Machine),
                                    !.sp = addr]
    /\ UNCHANGED << idefs, nlines, reaborted, aborted_defs, completed >>

NextRegister ==
    \/ call_add_builtin
    \/ call_dispatch

SpecRegister == InitRegister /\ [][NextRegister]_vars

\* the native function registered under a function name
native(vm, f) ==
    CASE f = "f_plus" -> f_plus(vm)
      [] f = "f_times" -> f_times(vm)
      [] f = "f_colon" -> f_colon(vm)
      [] f = "f_bye" -> f_bye(vm)
      [] f = "f_dup" -> f_dup(vm)
      [] f = "f_drop" -> f_drop(vm)
      [] f = "f_get" -> f_get(vm)
      [] f = "f_store" -> f_store(vm)
      [] f = "f_j" -> f_j(vm)
      [] f = "f_abort" -> f_abort(vm)
      [] f = "f_include_file" -> f_include_file(vm)
      [] f = "f_to_r" -> f_to_r(vm)
      [] f = "f_r_from" -> f_r_from(vm)
      [] f = "f_immediate" -> f_immediate(vm)
      [] f = "f_execute" -> f_execute(vm)
      [] f = "f_parse_to" -> f_parse_to(vm)
      [] f = "f_create" -> f_create(vm)
      [] f = "f_comma" -> f_comma(vm)
      [] f = "f_semicolon" -> f_semicolon(vm)

\* the table entry and the dictionary word of the i-th registration
RegisteredAt(vm, i) ==
    /\ vm.builtins[i] = Registered[i].code
    /\ CodeField(vm, Registered[i].name) # 0
    /\ get(vm, CodeField(vm, Registered[i].name)) = (i - 1) + BUILTIN_FLAG

\* C21: every registered builtin is appended to the table and has the next
\* index, the first 0, in registration order; the word of its name has the
\* code-field cell index | BUILTIN_FLAG (a registration returns the address
\* of that cell); and the call through the masked cell does to the stacks
\* and the arena exactly what the native function registered under that
\* name does.
C21_BuiltinRegisteredAndDispatched ==
    [][ /\ last'.act = "add_builtin" =>
              /\ Len(builtins') = Len(builtins) + 1
              /\ \A i \in 1..Len(builtins') : RegisteredAt(Machine', i)
              /\ last'.needed = Len(builtins') - 1
              /\ heap'[last'.sp] = last'.needed + BUILTIN_FLAG
        /\ last'.act = "builtin" =>
              /\ \A i \in 1..Len(builtins) : RegisteredAt(Machine, i)
              /\ heap[last'.sp] = last'.needed + BUILTIN_FLAG
              /\ \E r \in {native(Machine, Registered[last'.needed + 1].code)} :
                    /\ heap' = r.heap /\ strings' = r.strings
                    /\ stack_ptr' = r.stack_ptr /\ return_ptr' = r.return_ptr
                    /\ string_ptr' = r.string_ptr /\ builtins' = r.builtins
                    /\ control_stack' = r.control_stack
                    /\ exit_flag' = r.exit_flag /\ panic' = r.panic
                    /\ msg' = r.msg /\ reader' = r.reader
      ]_vars

\* a builtin registered after boot was called through its cell and added
\* the two items of the stack
C21_Witness ==
    /\ last.act = "builtin"
    /\ last.needed = Len(BuiltinsFirst)
    /\ last.depth = 2
    /\ panic = "none"
    /\ stack_ptr = STACK_START - 1
    /\ heap[stack_ptr] = 3

\* ------------------------------------------------------------------------
\* roll called as the tests of general.rs call it: items pushed on the
\* machine cold_start leaves, the count last, then f_roll.
InitRoll ==
    /\ \E depth \in 0..(MaxStack + 1) : \E vals \in [1..depth -> StackValues] :
       \E vm \in {setup_stack(cold_start, vals)} : Booted(vm, BOOLEAN)
    /\ ctl = "test"

call_roll ==
    /\ ctl = "test"
    /\ \E r \in {f_roll(Machine)} :
          /\ Commit(r)
          /\ ctl' = AfterPanic(r, "tested")
          /\ last' = [NoStep EXCEPT !.act = "roll", !.depth = stack_len(Machine),
                                    !.needed = topv(Machine),
                                    !.sp = stack_ptr]
    /\ UNCHANGED << idefs, nlines, reaborted, aborted_defs, completed >>

NextRoll == call_roll

SpecRoll == InitRoll /\ [][NextRoll]_vars

\* the items under the count, the deepest first
BelowCount == SubSeq(DataStack, 1, DataDepth - 1)
\* a stack with its item at depth n (0 = top) moved to the top
Rolled(s, n) ==
    SubSeq(s, 1, Len(s) - n - 1) \o SubSeq(s, Len(s) - n + 1, Len(s))
        \o << s[Len(s) - n] >>

\* C22 as stated: roll with the count n >= 0 on top and at least n + 1
\* items under it removes n and moves the item at depth n to the top, the
\* other items keeping their order; with fewer than n + 1 items under the
\* count, n = 0 included, it fails with a stack underflow.
C22_RollOrUnderflow ==
    [][ (last'.act = "roll" /\ DataDepth >= 1 /\ last'.needed >= 0) =>
            IF Len(BelowCount) >= last'.needed + 1
            THEN /\ panic' = "none"
                 /\ DataStack' = Rolled(BelowCount, last'.needed)
            ELSE panic' = "Stack underflow"
      ]_vars

\* C22, amended: as above, but 0 roll with nothing under the count is no
\* underflow: the count is removed and the call returns with the stack
\* empty.
C22_RollOrUnderflowAboveZero ==
    [][ (last'.act = "roll" /\ DataDepth >= 1 /\ last'.needed >= 0) =>
            IF Len(BelowCount) >= last'.needed + 1
            THEN /\ panic' = "none"
                 /\ DataStack' = Rolled(BelowCount, last'.needed)
                 /\ DataDepth' = DataDepth - 1
            ELSE IF last'.needed = 0
            THEN panic' = "none" /\ DataStack' = << >>
            ELSE panic' = "Stack underflow" /\ DataStack' = BelowCount
      ]_vars

\* 2 roll brought the third item under the count to the top
C22_Witness ==
    /\ last.act = "roll"
    /\ last.needed = 2
    /\ last.depth = 4
    /\ panic = "none"
    /\ DataStack = << 0, 1, -1 >>

\* ------------------------------------------------------------------------
\* @ and ! called with addresses in and out of the arena.
RangeValues == {-1, 0, 5, DATA_SIZE - 1, DATA_SIZE, DATA_SIZE + 7}

InitRange ==
    /\ \E depth \in 0..MaxStack : \E vals \in [1..depth -> RangeValues] :
       \E vm \in {setup_stack(cold_start, vals)} : Booted(vm, {FALSE})
    /\ ctl = "test"

call_memory ==
    /\ ctl = "test"
    /\ \E w \in {"@", "!"} : \E r \in {call_word(Machine, w)} :
          /\ Commit(r)
          /\ ctl' = AfterPanic(r, "tested")
          /\ last' = [NoStep EXCEPT !.act = w, !.depth = stack_len(Machine),
                                    !.needed = topv(Machine),
                                    !.sp = stack_ptr]
    /\ UNCHANGED << idefs, nlines, reaborted, aborted_defs, completed >>

NextRange == call_memory

SpecRange == InitRange /\ [][NextRange]_vars

RangeMsg == "@: Address out of range"

\* C23: @ with an item and ! with two items on the stack, the top one an
\* address outside the arena (negative or >= DATA_SIZE): no cell is read
\* or written at that address (no access leaves the arena, nothing is
\* pushed), the range error is reported and ABORT runs (flag set, both
\* stacks emptied), and every cell of the arena other than the abort flag,
\* the dictionary with it, is as it was.
C23_OutOfRangeAborts ==
    [][ (/\ last'.act \in {"@", "!"}
         /\ last'.depth >= (IF last'.act = "@" THEN 1 ELSE 2)
         /\ (last'.needed < 0 \/ last'.needed >= DATA_SIZE)) =>
            /\ panic' = "none"
            /\ ~oob'
            /\ RangeMsg \in msg'
            /\ AbortMsg \in msg'
            /\ heap' = [heap EXCEPT ![abort_ptr] = TRUE_F]
            /\ stack_ptr' = STACK_START
            /\ return_ptr' = RET_START
      ]_vars

\* ! was given the address DATA_SIZE under a value: ABORT ran and the
\* arena kept its cells
C23_Witness ==
    /\ last.act = "!"
    /\ last.depth = 2
    /\ last.needed = DATA_SIZE
    /\ heap[abort_ptr] = TRUE_F
    /\ RangeMsg \in msg
    /\ stack_ptr = STACK_START
    /\ panic = "none"

\* ------------------------------------------------------------------------
\* The inner interpreter run on definitions whose cells are laid down with
\* make_word (as create and , lay them down), then started with execute.
ExecuteCell == BUILTIN_FLAG + 14
BadIndex == Len(BuiltinsFirst) + 481

\* : sq 5 ;
Body_sq == << TAG_DEFINITION, TAG_LITERAL, 5, TAG_EXIT >>
\* a word that calls the word at cfa, then pushes n
Body_call(cfa, n) == << TAG_DEFINITION, cfa, TAG_LITERAL, n, TAG_EXIT >>
\* a word that runs the word at cfa through the cell run, then pushes 7
Body_exec(cfa, run) ==
    << TAG_DEFINITION, TAG_LITERAL, cfa, run, TAG_LITERAL, 7, TAG_EXIT >>

\* Cfa1 is the code field of the first word made after cold_start; a word
\* of n cells takes n + 2 cells of the arena
Programs(Cfa1) ==
    { \* x runs sq through EXEC, k calls x
      << [name |-> W_sq, cells |-> Body_sq],
         [name |-> W_x, cells |-> Body_exec(Cfa1, TAG_EXEC)],
         [name |-> W_k, cells |-> Body_call(Cfa1 + 6, 8)] >>,
      \* the same with the builtin execute in the place of EXEC
      << [name |-> W_sq, cells |-> Body_sq],
         [name |-> W_x, cells |-> Body_exec(Cfa1, ExecuteCell)],
         [name |-> W_k, cells |-> Body_call(Cfa1 + 6, 8)] >>,
      \* g: a BRANCH0 forward over a BRANCH backward; h: a BRANCH forward
      << [name |-> W_g, cells |-> << TAG_DEFINITION, TAG_BRANCH0, 3, TAG_BRANCH, -3,
                                     TAG_EXIT >>],
         [name |-> W_h, cells |-> << TAG_DEFINITION, TAG_BRANCH, 3, TAG_LITERAL, 1,
                                     TAG_EXIT >>] >>,
      \* foo leaves through BREAK, h calls foo
      << [name |-> W_foo, cells |-> << TAG_DEFINITION, TAG_LITERAL, 6, TAG_BREAK >>],
         [name |-> W_h, cells |-> Body_call(Cfa1, 9)] >>,
      \* calls nested three deep
      << [name |-> W_sq, cells |-> Body_sq],
         [name |-> W_x, cells |-> Body_call(Cfa1, 1)],
         [name |-> W_k, cells |-> Body_call(Cfa1 + 6, 2)],
         [name |-> W_h, cells |-> Body_call(Cfa1 + 13, 3)] >>,
      \* cells with the builtin flag and an index the table does not have
      << [name |-> W_ab, cells |-> << TAG_DEFINITION, BUILTIN_FLAG + BadIndex,
                                      TAG_LITERAL, 1, TAG_EXIT >>],
         [name |-> W_g, cells |-> << TAG_DEFINITION, TAG_LITERAL, 4,
                                     BUILTIN_FLAG + Len(BuiltinsFirst), TAG_EXIT >>] >> }

ProgramNames == {W_sq, W_x, W_k, W_g, W_h, W_foo, W_ab}
InnerStacks == { << >>, << 0, 5 >>, << 0, 0 >> }

RECURSIVE make_words(_, _)
make_words(m, words) ==
    Let(m, LAMBDA vm :
        IF words = << >> THEN vm
        ELSE make_words(make_word(vm, Head(words).name, Head(words).cells), Tail(words)))

InitInner ==
    /\ \E booted \in {cold_start} : \E words \in Programs(make_word_ret(booted)) :
       \E vals \in InnerStacks :
       \E vm \in {setup_stack(make_words(booted, words), vals)} : Booted(vm, {FALSE})
    /\ ctl = "test"

\* f_execute with the code field of a word on the stack, up to the first
\* turn of i_definition.  completed keeps the word that was started: its
\* name field, and the data stack it was given.
call_execute ==
    /\ ctl = "test"
    /\ \E w \in ProgramNames : \E addr \in {CodeField(Machine, w)} :
         /\ addr # 0
         /\ \E r \in {f_execute(push(Machine, addr))} :
            \E e \in {IF r.enter /\ Ok(r) THEN i_definition_entry([r EXCEPT !.enter = FALSE])
                      ELSE [vm |-> r, pc |-> 0, call_depth |-> 0]} :
               /\ Commit(e.vm)
               /\ ctl' = AfterPanic(e.vm, IF r.enter /\ Ok(e.vm) THEN "idef" ELSE "eval")
               /\ idefs' = IF r.enter /\ Ok(e.vm)
                           THEN << [pc |-> e.pc, call_depth |-> e.call_depth] >>
                           ELSE << >>
               /\ last' = [NoStep EXCEPT !.act = "execute", !.sp = addr,
                                         !.depth = stack_len(Machine)]
               /\ completed' = << [nfa |-> addr - 1, cells |-> DataStack] >>
    /\ UNCHANGED << nlines, reaborted, aborted_defs >>

NextInner ==
    \/ call_execute
    \/ i_definition

SpecInner == InitInner /\ [][NextInner]_vars
\* the outermost activation returned to f_execute's caller
InnerReturned == ctl = "eval"

\* the cells of the return stack, the oldest first
ReturnStack == [i \in 1..(RET_START - return_ptr) |-> heap[RET_START - i]]

\* C24: when a word run by EXEC, or by the builtin execute, inside a colon
\* definition returns, the definition goes on at the cell after that cell
\* and the return stack holds the frames it held before: the turn in which
\* the called definition's activation ends leaves the return stack as the
\* called word's EXIT left it.
C24_ExecKeepsCallerFrames ==
    [][ (/\ ctl = "idef"
         /\ Len(idefs) > 1
         /\ Len(idefs') = Len(idefs) - 1
         /\ ~AbortFlag
         /\ panic' = "none") =>
            /\ heap[idefs'[Len(idefs')].pc - 1] \in {TAG_EXEC, ExecuteCell}
            /\ ReturnStack' = ReturnStack
      ]_vars

\* the innermost activation is about to decode the cell at its pc
Decoding(tag) ==
    /\ ctl = "idef"
    /\ idefs # << >>
    /\ ~AbortFlag
    /\ idefs[Len(idefs)].pc # 0
    /\ InHeap(idefs[Len(idefs)].pc)
    /\ heap[idefs[Len(idefs)].pc] = tag
\* the program counter of the innermost activation
Pc == idefs[Len(idefs)].pc

\* C25 as stated: a BRANCH cell at address a with the signed offset k in
\* the next cell jumps to a + k, the offset counted from the branch cell
\* itself, and leaves the data stack as it was.
C25_BranchFromBranchCell ==
    [][ (Decoding(TAG_BRANCH) /\ panic' = "none") =>
            /\ Len(idefs') = Len(idefs)
            /\ Pc' = Pc + heap[Pc + 1]
            /\ DataStack' = DataStack
      ]_vars

\* C25, amended: the jump goes to (a + 1) + k, the offset counted from the
\* offset cell, for negative and positive k alike, and the data stack is
\* unchanged.
C25_BranchFromOffsetCell ==
    [][ (Decoding(TAG_BRANCH) /\ panic' = "none") =>
            /\ Len(idefs') = Len(idefs)
            /\ Pc' = (Pc + 1) + heap[Pc + 1]
            /\ DataStack' = DataStack
            /\ return_ptr' = return_ptr
      ]_vars

\* the BRANCH of g with the offset -3 has just jumped back to the BRANCH0
\* cell, two cells before it
C25_Witness ==
    /\ ctl = "idef"
    /\ last.act = "i_definition"
    /\ Len(idefs) = 1
    /\ Pc = CodeField(Machine, W_g) + 1
    /\ heap[Pc] = TAG_BRANCH0
    /\ heap[Pc + 2] = TAG_BRANCH
    /\ heap[Pc + 3] = -3
    /\ DataStack = << 0 >>

\* C26: a BRANCH0 cell pops exactly one item of the data stack whether or
\* not it jumps; on a zero it goes where a BRANCH with the same offset at
\* the same address goes (the turn of the inner interpreter on the same
\* arena with BRANCH in that cell), otherwise to the cell after the offset
\* cell.
C26_Branch0PopsAndJumps ==
    [][ (Decoding(TAG_BRANCH0) /\ DataDepth >= 1 /\ panic' = "none") =>
            /\ Len(idefs') = Len(idefs)
            /\ DataStack' = SubSeq(DataStack, 1, DataDepth - 1)
            /\ return_ptr' = return_ptr
            /\ Pc' = IF DataStack[DataDepth] = 0
                     THEN i_definition_step(set(Machine, Pc, TAG_BRANCH), Pc,
                                            idefs[Len(idefs)].call_depth).pc
                     ELSE Pc + 2
      ]_vars

\* the BRANCH0 of g popped a zero and jumped forward to the EXIT of g: the
\* item under the zero is left
C26_Witness ==
    /\ ctl = "idef"
    /\ last.act = "i_definition"
    /\ last.cell
    /\ Len(idefs) = 1
    /\ Pc = CodeField(Machine, W_g) + 5
    /\ heap[Pc] = TAG_EXIT
    /\ heap[Pc - 4] = TAG_BRANCH0
    /\ DataStack = << 0 >>
    /\ last.sp = STACK_START - 2

\* the cell at a calls a colon definition: an address without the builtin
\* flag whose cell is DEFINITION
CallCell(a) ==
    /\ InHeap(a)
    /\ heap[a] > 0
    /\ heap[a] < DATA_SIZE
    /\ heap[heap[a]] = TAG_DEFINITION
\* the code field of the word call_execute started
Started == completed[1].nfa + 1
\* that word is a call of a colon definition followed by a literal and EXIT
StartedCallsFirst ==
    /\ completed # << >>
    /\ heap[Started] = TAG_DEFINITION
    /\ CallCell(Started + 1)
    /\ heap[Started + 2] = TAG_LITERAL
    /\ heap[Started + 4] = TAG_EXIT

\* C27: a cell of definition A that names a colon definition B pushes the
\* address of A's next cell on the return stack, leaves the data stack
\* alone and jumps to B; and when B has reached its EXIT, A resumes at
\* that next cell with the return stack as deep as before the call,
\* whatever B called meanwhile: a word A whose body is "B literal EXIT",
\* once its activation has returned, has pushed its literal last and left
\* the return stack empty.
C27_CallResumesCaller ==
    [][ /\ (/\ ctl = "idef" /\ idefs # << >> /\ ~AbortFlag
            /\ CallCell(Pc) /\ panic' = "none") =>
               /\ Len(idefs') = Len(idefs)
               /\ Pc' = heap[Pc]
               /\ ReturnStack' = Append(ReturnStack, Pc + 1)
               /\ DataStack' = DataStack
        /\ (/\ ctl = "idef" /\ ctl' = "eval" /\ panic' = "none" /\ ~AbortFlag'
            /\ StartedCallsFirst) =>
               /\ DataDepth' >= 1
               /\ heap'[stack_ptr'] = heap[Started + 3]
               /\ return_ptr' = RET_START
      ]_vars

\* the call depth of the innermost activation
CallDepth == idefs[Len(idefs)].call_depth

\* C28: EXIT and BREAK each pop the return stack into the program counter
\* and take one from the call depth, a call adds one to it: the call depth
\* is always one more than the number of calls that have not returned,
\* which are the frames on the return stack above the activation's own.
C28_CallDepthCountsCalls ==
    [][ /\ (/\ (Decoding(TAG_EXIT) \/ Decoding(TAG_BREAK))
            /\ ReturnStack # << >> /\ panic' = "none") =>
               /\ ReturnStack' = SubSeq(ReturnStack, 1, Len(ReturnStack) - 1)
               /\ idefs' # << >>
               /\ Pc' = ReturnStack[Len(ReturnStack)]
               /\ CallDepth' = CallDepth - 1
        /\ (/\ ctl = "idef" /\ idefs # << >> /\ ~AbortFlag
            /\ CallCell(Pc) /\ panic' = "none") =>
               CallDepth' = CallDepth + 1
        /\ (/\ ctl' = "idef" /\ Len(idefs') = 1 /\ panic' = "none") =>
               CallDepth' = Len(ReturnStack')
      ]_vars

\* C29: a cell with the builtin flag whose masked index is beyond the
\* builtin table stops execution at once: the turn that decodes it ends in
\* a fatal error, the cell is not taken as a call address (nothing is
\* pushed on the return stack, the program counter does not go to it) and
\* no cell of the stacks or of the arena is written.
C29_BadBuiltinIndexIsFatal ==
    [][ (/\ ctl = "idef" /\ idefs # << >> /\ ~AbortFlag
         /\ Pc # 0 /\ InHeap(Pc)
         /\ HasFlag(heap[Pc], BUILTIN_FLAG)
         /\ Mask(Usize(heap[Pc])) > Len(builtins) - 1) =>
            /\ panic' # "none"
            /\ ctl' = "terminated"
            /\ heap' = heap
            /\ stack_ptr' = stack_ptr
            /\ return_ptr' = return_ptr
      ]_vars

\* ------------------------------------------------------------------------
\* Tokens met in compile mode (the lines of SpecImmediate: sq is compiled
\* into h before and after it is made immediate).
\* the code field FIND gives for the token f_eval parses next, 0 when the
\* dictionary does not have it
TokenCfa == CodeField(Machine, NextToken.text)
TokenImmediate == HasFlag(heap[TokenCfa - 1], IMMEDIATE_FLAG)
CompilingFound ==
    /\ ctl = "eval"
    /\ CompileMode
    /\ NextToken.found
    /\ TokenCfa # 0
\* the step wrote cell at HERE, moved HERE by one, and but for the parser's
\* >IN left every other cell of the dictionary and both stacks alone
Appended(cell) ==
    /\ heap'[heap[here_ptr]] = cell
    /\ heap'[here_ptr] = heap[here_ptr] + 1
    /\ \A a \in (0..(heap[here_ptr] - 1)) \ {here_ptr, tib_in_ptr} : heap'[a] = heap[a]
    /\ DataStack' = DataStack
    /\ return_ptr' = return_ptr
    /\ ctl' = "eval"
    /\ idefs' = << >>
\* the step did to the dictionary and to both stacks what f_execute does
\* with the word's code field on the stack, entering i_definition for a
\* colon definition
Executed ==
    \E v \in {f_parse_to(push(push(Machine, get(Machine, pad_ptr)), SPACE))} :
    \E r \in {f_execute(push(pop(pop(v)), TokenCfa))} :
    \E e \in {IF r.enter /\ Ok(r) THEN i_definition_entry([r EXCEPT !.enter = FALSE])
              ELSE [vm |-> r, pc |-> 0, call_depth |-> 0]} :
        /\ \A a \in 0..heap'[here_ptr] : heap'[a] = e.vm.heap[a]
        /\ stack_ptr' = e.vm.stack_ptr
        /\ DataStack' = [i \in 1..(STACK_START - e.vm.stack_ptr) |->
                            e.vm.heap[STACK_START - i]]
        /\ return_ptr' = e.vm.return_ptr
        /\ ReturnStack' = [i \in 1..(RET_START - e.vm.return_ptr) |->
                              e.vm.heap[RET_START - i]]
        /\ idefs' = IF r.enter /\ Ok(r)
                    THEN << [pc |-> e.pc, call_depth |-> e.call_depth] >>
                    ELSE << >>

\* C30 as stated: in compile mode a found word that is not immediate is
\* not executed; one cell, the cell in its code field, is appended at HERE
\* and the data stack is unchanged.  A found immediate word is executed at
\* once and not appended.
C30_CompilesCodeFieldCell ==
    [][ (CompilingFound /\ panic' = "none") =>
            IF TokenImmediate
            THEN Executed /\ ~Appended(heap[TokenCfa]) /\ ~Appended(TokenCfa)
            ELSE Appended(heap[TokenCfa])
      ]_vars

\* C30, amended: the cell appended is the cell in the code field when the
\* word is a builtin (index | BUILTIN_FLAG), and the address of the code
\* field when it is not (a colon definition, a variable, a constant).
C30_CompilesCellOrAddress ==
    [][ (CompilingFound /\ panic' = "none") =>
            IF TokenImmediate
            THEN Executed /\ ~Appended(heap[TokenCfa]) /\ ~Appended(TokenCfa)
            ELSE IF HasFlag(heap[TokenCfa], BUILTIN_FLAG)
            THEN Appended(heap[TokenCfa])
            ELSE Appended(TokenCfa)
      ]_vars

\* the colon definition sq, not immediate, has just been compiled into h:
\* the cell before HERE holds the address of sq's code field
C30_Witness ==
    /\ last.act = "f_eval"
    /\ last.compiling
    /\ CompileMode
    /\ CodeField(Machine, W_sq) # 0
    /\ ~HasFlag(heap[CodeField(Machine, W_sq) - 1], IMMEDIATE_FLAG)
    /\ heap[heap[here_ptr] - 1] = CodeField(Machine, W_sq)
    /\ heap[heap[here_ptr] - 2] = TAG_DEFINITION
    /\ string_get(Machine, Mask(Usize(heap[heap[here_ptr] - 3]))) = W_h

\* ------------------------------------------------------------------------
\* (parse) called on a window of the string space.  The window holds a
\* prefix of a short text of spaces and letters, laid in the TMP buffer or
\* against the end of the string space.
MaxText == 3
ParseBytes == {SPACE, 97, 98}
ParseTexts == UNION { [1..n -> ParseBytes] : n \in 0..MaxText }
ParseDelims == {SPACE, 97}

InitParse ==
    /\ \E booted \in {cold_start} : \E text \in ParseTexts :
       \E at \in {TMP_START, STRING_SIZE - Len(text)} :
       \E u \in 0..Len(text) : \E c \in ParseDelims :
       \E vm \in {setup_stack(put_bytes(booted, at, text), << at, u, c >>)} :
          Booted(vm, {FALSE})
    /\ ctl = "test"

call_parse_p ==
    /\ ctl = "test"
    /\ \E r \in {f_parse_p(Machine)} :
          /\ Commit(r)
          /\ ctl' = AfterPanic(r, "tested")
          /\ last' = [NoStep EXCEPT !.act = "(parse)", !.depth = stack_len(Machine),
                                    !.sp = peekv(Machine, 2),
                                    !.needed = peekv(Machine, 1),
                                    !.cell = topv(Machine)]
    /\ UNCHANGED << idefs, nlines, reaborted, aborted_defs, completed >>

NextParse == call_parse_p

SpecParse == InitParse /\ [][NextParse]_vars

\* the bytes of the window (parse) was called on
Window == [i \in 1..last.needed |-> strings[(last.sp + i) - 1]]

RECURSIVE Leading(_, _)
\* the number of bytes at the front of w equal to c
Leading(w, c) ==
    IF w # << >> /\ Head(w) = c THEN 1 + Leading(Tail(w), c) ELSE 0

RECURSIVE Until(_, _)
\* the number of bytes at the front of w before the first c
Until(w, c) ==
    IF w # << >> /\ Head(w) # c THEN 1 + Until(Tail(w), c) ELSE 0

\* C31: (parse) on a window (start, length u) with delimiter c returns the
\* start, len and skip, where skip is the number of leading bytes of the
\* window equal to c and len the number of bytes after them up to the next
\* c or the end of the window; skip + len <= u, the token holds no c, and
\* an empty window gives len 0 and skip 0.
C31_ParseSplitsWindow ==
    last.act = "(parse)" =>
        LET w == Window
            skip == Leading(w, last.cell)
            len == Until(SubSeq(w, skip + 1, Len(w)), last.cell)
        IN /\ panic = "none"
           /\ DataStack = << last.sp, len, skip >>
           /\ skip + len <= last.needed
           /\ \A i \in 1..len : w[skip + i] # last.cell
           /\ (last.needed = 0 => len = 0 /\ skip = 0)

\* ------------------------------------------------------------------------
\* parse-to called again and again on one line, as the loop of f_eval
\* calls it: query brings a typed line into the input buffer, then each
\* call asks for the next space-delimited token in PAD.  A typed line
\* holds at least a byte (an empty read is the end of the stream) and
\* loses its trailing spaces in get_line.
MaxParses == MaxText + 2
TokenLines == UNION { [1..n -> ParseBytes] : n \in 1..(MaxText + 2) }

InitTokens ==
    /\ \E booted \in {cold_start} : \E line \in TokenLines :
       \E vm \in {f_query(booted, line)} : Booted(vm, {FALSE})
    /\ ctl = "test"

call_parse_to ==
    /\ ctl = "test"
    /\ nlines < MaxParses
    /\ \E r \in {f_parse_to(push(push(Machine, get(Machine, pad_ptr)), SPACE))} :
          /\ Commit(pop(pop(r)))
          /\ ctl' = AfterPanic(r, "test")
          /\ completed' = Append(completed,
                                 [len |-> popv(r), dest |-> topv(pop(r)),
                                  text |-> string_get(r, Usize(get(r, pad_ptr)))])
          /\ last' = [NoStep EXCEPT !.act = "parse-to", !.depth = stack_len(Machine)]
    /\ nlines' = nlines + 1
    /\ UNCHANGED << idefs, reaborted, aborted_defs >>

NextTokens == call_parse_to

SpecTokens == InitTokens /\ [][NextTokens]_vars

RECURSIVE Split(_)
\* the space-delimited tokens of a line, in order
Split(w) ==
    LET s == Leading(w, SPACE)
        r == SubSeq(w, s + 1, Len(w))
        l == Until(r, SPACE)
    IN IF l = 0 THEN << >>
       ELSE << SubSeq(r, 1, l) >> \o Split(SubSeq(r, l + 1, Len(r)))

\* C32: on a line of n space-delimited tokens in the input buffer, the
\* k-th call of parse-to with the space delimiter returns PAD and the
\* length of the k-th token, with that token as a counted string in PAD,
\* for k <= n, and length zero for every k > n; >IN never decreases, and a
\* returned token is the stretch of the line that ends just before the
\* byte >IN has passed, inside the #TIB bytes of the line.
C32_TokensInOrder ==
    [][ last'.act = "parse-to" =>
          LET toks == Split(TibText)
              k == nlines'
              ret == completed'[k]
              to_in == heap'[tib_in_ptr]
          IN /\ panic' = "none"
             /\ TibText' = TibText
             /\ Len(TibText) = heap[tib_size_ptr]
             /\ to_in >= heap[tib_in_ptr]
             /\ ret.dest = heap[pad_ptr]
             /\ stack_ptr' = stack_ptr
             /\ IF k <= Len(toks)
                THEN /\ ret.len = Len(toks[k])
                     /\ ret.text = toks[k]
                     /\ to_in - 2 <= heap[tib_size_ptr]
                     /\ ret.text = SubSeq(TibText, (to_in - 1) - ret.len, to_in - 2)
                ELSE ret.len = 0
      ]_vars

\* the third call has returned the third token of "a b a", and the fourth
\* call length zero
C32_Witness ==
    /\ last.act = "parse-to"
    /\ TibText = << 97, SPACE, 98, SPACE, 97 >>
    /\ nlines = 4
    /\ completed[1].text = << 97 >>
    /\ completed[2].text = << 98 >>
    /\ completed[3].len = 1
    /\ completed[3].text = << 97 >>
    /\ completed[4].len = 0
    /\ panic = "none"

\* ------------------------------------------------------------------------
\* Definitions compiled with the control words.  >c and c> are the last
\* two builtins compile_builtins registers; begin and until stand for the
\* immediate words of the core library that push and pop a marker while a
\* definition is compiled: begin pushes HERE as a Begin marker, until pops
\* a marker and drops its address.  They are named b and u, and the words
\* defined with them have one letter, for the names to fit the string
\* space.
W_to_c == << 62, 99 >>
W_from_c == << 99, 62 >>
W_begin == << 98 >>
W_until == << 117 >>

ControlBuiltins ==
    << [name |-> W_to_c, code |-> "f_to_c"],
       [name |-> W_from_c, code |-> "f_from_c"] >>

\* : begin here @ MARK_BEGIN >c ; immediate
Body_begin(vm) ==
    << TAG_DEFINITION, CodeField(vm, W_here), get(vm, CodeField(vm, W_fetch)),
       TAG_LITERAL, MARK_BEGIN, get(vm, CodeField(vm, W_to_c)), TAG_EXIT >>
\* : until c> drop ; immediate
Body_until(vm) ==
    << TAG_DEFINITION, get(vm, CodeField(vm, W_from_c)),
       get(vm, CodeField(vm, W_drop)), TAG_EXIT >>

L_h_begin == Line(<< W_colon, W_h, W_begin, W_semicolon >>)
L_k_until == Line(<< W_colon, W_k, W_until, W_semicolon >>)
L_g_loop == Line(<< W_colon, W_g, W_begin, W_until, W_semicolon >>)
L_x_zz == Line(<< W_colon, W_x, W_begin, W_zz, W_semicolon >>)

ControlLines == { L_h_begin, L_k_until, L_g_loop, L_x_zz }

InitControl ==
    /\ \E booted \in {add_builtins(cold_start, ControlBuiltins)} :
       \E b \in {f_immediate(make_word(booted, W_begin, Body_begin(booted)))} :
       \E vm \in {f_immediate(make_word(b, W_until, Body_until(booted)))} :
          Booted(vm, {FALSE})
    /\ ctl = "start"

NextControl ==
    \/ run_forth
    \/ f_quit(ControlLines)
    \/ f_eval
    \/ i_definition

SpecControl == InitControl /\ [][NextControl]_vars

\* C33: when `;` closes a definition (the record is linked and the
\* interpreter leaves compile mode) the control-marker stack is empty;
\* and a marker popped by c> while a definition is compiled was pushed
\* during that definition (begin pushes the HERE of the time, which lies
\* above the name field LAST of the definition under construction).
C33_MarkersDieWithDefinition ==
    [][ /\ (Len(completed') > Len(completed)) => control_stack' = << >>
        /\ (CompileMode /\ Len(control_stack') < Len(control_stack)) =>
              control_stack[Len(control_stack)].addr > heap[last_ptr]
      ]_vars

\* ------------------------------------------------------------------------
\* include-file called with the address of a file name on the stack, as
\* load_file calls it: the name is in the TMP buffer, and names a file
\* that exists or one that does not.
IncludeNames == { W_fa, W_fb, W_fc, W_fd, W_zz, W_sq }

InitInclude ==
    /\ \E booted \in {cold_start} : \E name \in IncludeNames :
       \E depth \in 0..MaxStack : \E vals \in [1..depth -> RegisterValues] :
       \E vm \in {push(string_set(setup_stack(booted, vals),
                                  Usize(get(booted, tmp_ptr)), name),
                       get(booted, tmp_ptr))} :
          Booted(vm, {FALSE})
    /\ ctl = "test"

call_include_file ==
    /\ ctl = "test"
    /\ \E r \in {f_include_file(Machine)} :
          /\ Commit(r)
          /\ ctl' = AfterPanic(r, "tested")
          /\ last' = [NoStep EXCEPT !.act = "include-file",
                                    !.depth = stack_len(Machine),
                                    !.token = string_get(Machine, Usize(topv(Machine))),
                                    !.sp = stack_ptr]
    /\ UNCHANGED << idefs, nlines, reaborted, aborted_defs, completed >>

NextInclude == call_include_file

SpecInclude == InitInclude /\ [][NextInclude]_vars

\* C34: include-file takes the address of the file name off the stack and
\* leaves one flag in its place, the items beneath untouched: TRUE with
\* one new source, a reader on the named file, pushed on the stack of
\* input sources, or FALSE with the input sources as they were when the
\* file cannot be opened.
C34_IncludeLeavesOneFlag ==
    [][ last'.act = "include-file" =>
          /\ panic' = "none"
          /\ DataDepth' = DataDepth
          /\ SubSeq(DataStack', 1, DataDepth - 1) = SubSeq(DataStack, 1, DataDepth - 1)
          /\ IF file_exists(last'.token)
             THEN /\ heap'[stack_ptr'] = TRUE_F
                  /\ reader' = Append(reader, BReader(last'.token))
             ELSE /\ heap'[stack_ptr'] = FALSE_F
                  /\ reader' = reader
      ]_vars

\* ------------------------------------------------------------------------
\* boot_forth with core files: each path of the core list is loaded in
\* list order, then the user file; after each load the result is popped,
\* and the stack must be empty at the end.  The core list of a run is a
\* prefix of CoreList, the user file g or none.
CoreList == << W_fe, W_ff >>

RECURSIVE load_core(_, _)
\* for path in DEFAULT_CORE { load_file; pop }
load_core(m, paths) ==
    Let(m, LAMBDA vm :
        IF paths = << >> THEN vm
        ELSE load_core(pop(load_file(vm, Head(paths))), Tail(paths)))

boot_forth_core(core, loaded_file) ==
    Let(load_core(cold_start, core), LAMBDA v1 :
    Let(IF loaded_file = << >> THEN v1 ELSE pop(load_file(v1, loaded_file)), LAMBDA v2 :
        IF v2.stack_ptr # STACK_START
        THEN Panic(v2, "Stack pointer should be STACK_START after file loading")
        ELSE v2))

InitBoot ==
    /\ \E n \in 0..Len(CoreList) : \E loaded_file \in { << >>, W_fg } :
       \E vm \in {boot_forth_core(SubSeq(CoreList, 1, n), loaded_file)} :
          Booted(vm, {FALSE})
    /\ ctl = "start"

\* no line of the files or of the console runs a colon definition
BootLines == { L_one, L_bye }

NextBoot ==
    \/ run_forth
    \/ f_quit(BootLines)
    \/ f_eval

SpecBoot == InitBoot /\ [][NextBoot]_vars

\* the numbers of the lines of the queued files, in the order supplied:
\* the core files in list order, then the user file
RECURSIVE NumbersOf(_)
NumbersOf(files) ==
    IF files = << >> THEN << >>
    ELSE [i \in 1..Len(file_text(Head(files))) |->
              parse_i64(trim_end(file_text(Head(files))[i]))]
         \o NumbersOf(Tail(files))

SuppliedOrder == NumbersOf(CoreList \o << W_fg >>)

\* the place of a number in the supplied order
Place(n) == CHOOSE i \in 1..Len(SuppliedOrder) : SuppliedOrder[i] = n

\* C35: the lines of the files queued at start-up are evaluated in the
\* order supplied.  Each line of these files pushes its number, so while
\* no line has been read from the console the data stack holds numbers of
\* the queued files in the supplied order: the lines of each core file in
\* list order, then those of the user file; and a line is read from the
\* console only when no file is left.
C35_FilesInSuppliedOrder ==
    /\ nlines = 0 =>
          /\ \A i \in 1..DataDepth : \E j \in 1..Len(SuppliedOrder) :
                DataStack[i] = SuppliedOrder[j]
          /\ \A i, j \in 1..DataDepth :
                i < j => Place(DataStack[i]) < Place(DataStack[j])
    /\ nlines > 0 => reader = << StdinHandle >>

\* ------------------------------------------------------------------------
\* Definitions that name themselves: sq defined, then redefined with the
\* old sq in its body; h, which no earlier word is called, named in its
\* own body; g made with create and closed by `;` with its own name typed
\* in between; and a line that runs sq.
L_sq_sq == Line(<< W_colon, W_sq, W_sq, W_sq, W_semicolon >>)
L_h_h == Line(<< W_colon, W_h, W_h, W_semicolon >>)
L_create_g == Line(<< W_create, W_g, W_g, W_semicolon >>)

HiddenLines == { L_sq_times, L_sq_sq, L_h_h, L_create_g, L_run_sq }
HiddenNames == { W_sq, W_h, W_g }

NextHidden ==
    \/ run_forth
    \/ f_quit(HiddenLines)
    \/ f_eval
    \/ i_definition

SpecHidden == Init /\ [][NextHidden]_vars

\* the code field FIND gives for a name held in the TMP buffer, 0 when it
\* does not find the name
FindCfa(vm, name) ==
    LET tmp == get(vm, tmp_ptr)
        r == f_find(push(string_set([vm EXCEPT !.panic = "none"], Usize(tmp), name), tmp))
    IN IF popv(r) = TRUE_F THEN popv(pop(r)) ELSE 0

\* the name of the record whose name field is at nfa
NameAt(vm, nfa) == string_get(vm, Mask(Usize(get(vm, nfa))))

RECURSIVE walk_links(_, _, _)
walk_links(vm, link, fuel) ==
    IF link <= 0 THEN << >>
    ELSE IF fuel = 0 \/ ~InHeap(link + 1) THEN << -1 >>
    ELSE << link >> \o walk_links(vm, Usize(get(vm, link)), fuel - 1)

Links(vm) == walk_links(vm, Usize(get(vm, context_ptr)) - 1, DATA_SIZE)

\* the names of the words of cold_start, in the order they are made
BootNames ==
    << W_s_here, W_here, W_context >> \o VariableNames
       \o [i \in 1..Len(BuiltinsFirst) |-> BuiltinsFirst[i].name]

\* FIND of the name ends, found or not
FindEnds(vm, name) ==
    LET tmp == get(vm, tmp_ptr)
    IN Ok(f_find(push(string_set([vm EXCEPT !.panic = "none"], Usize(tmp), name), tmp)))

\* C37: the chain of back links FIND walks from CONTEXT.  After boot it
\* goes through the records of the words of cold_start, the last made the
\* first; the step that executes `;` puts the record it closes in front
\* of the chain and no other step changes the chain, so the records are
\* visited once each in the reverse of the order of definition; the links
\* are strictly decreasing and the walk ends on a link 0, so FIND ends for
\* every name, found or not.
C37_ChainWellFormed ==
    /\ [i \in 1..Len(Links(Machine)) |-> NameAt(Machine, Links(Machine)[i] + 1)]
          = [i \in 1..Len(BootNames) |-> BootNames[(Len(BootNames) + 1) - i]]
    /\ [][ panic' = "none" =>
             LET was == Links(Machine)
                 is == Links(Machine')
             IN IF heap'[context_ptr] = heap[context_ptr] /\ heap'[here_ptr] = heap[here_ptr]
                THEN is = was
                ELSE IF ctl = "eval" /\ NextToken.found /\ NextToken.text = W_semicolon
                THEN is = << heap[last_ptr] - 1 >> \o was
                ELSE is = was
         ]_vars
    /\ [](LET l == Links(Machine)
          IN /\ \A i \in 1..Len(l) : l[i] > 0 /\ (i > 1 => l[i] < l[i - 1])
             /\ heap[l[Len(l)]] = 0
             /\ \A n \in HiddenNames \cup {W_zz} : FindEnds(Machine, n))

\* three definitions have been closed: the chain holds the records of
\* cold_start and, in front of them, the three new records, the latest
\* first
C37_Witness ==
    /\ Len(Links(Machine)) = Len(BootNames) + 3
    /\ ctl = "quit"
    /\ NameAt(Machine, Links(Machine)[1] + 1) = W_g
    /\ NameAt(Machine, Links(Machine)[2] + 1) = W_sq
    /\ NameAt(Machine, Links(Machine)[3] + 1) = W_sq
    /\ Links(Machine)[1] > Links(Machine)[2]
    /\ Links(Machine)[4] = Links(cold_start)[1]
    /\ FindCfa(Machine, W_sq) = Links(Machine)[2] + 2

\* ------------------------------------------------------------------------
\* abort and the interpreter's mode and input sources: a file whose lines
\* abort from a running definition and from an unresolved token in a
\* definition, and console lines that do the same
FileAbortLines == {L_one, L_h_g}

InitFileAbort ==
    /\ \E loaded_file \in { << >>, W_fi } :
       \E vm \in {boot_forth(loaded_file)} : Booted(vm, {FALSE})
    /\ ctl = "start"

NextFileAbort == run_forth \/ f_quit(FileAbortLines) \/ f_eval \/ i_definition

SpecFileAbort == InitFileAbort /\ [][NextFileAbort]_vars

MaxBody == 2

AgreeTokens == { Num(7), W_dup, W_times, W_plus, W_drop }
AgreeBodies == UNION { [1..n -> AgreeTokens] : n \in 1..MaxBody }
AgreeStack(d) == [i \in 1..d |-> IF i % 2 = 1 THEN i + 1 ELSE 0 - (i + 1)]
DefLine(t) == Line(<< W_colon, W_w >> \o t \o << W_semicolon >>)

\* the f_eval loop run to the end of a line none of whose tokens enters a
\* colon definition
RECURSIVE f_eval_line(_, _)
f_eval_line(m, fuel) ==
    Let(m, LAMBDA vm :
    IF fuel = 0 \/ ~Ok(vm) THEN vm
    ELSE Let(f_parse_to(push(push(vm, get(vm, pad_ptr)), SPACE)), LAMBDA v2 :
         Let(pop(v2), LAMBDA v3 :
             IF popv(v2) = FALSE_F THEN pop(v3)
             ELSE f_eval_line(IF get_compile_mode(v3) THEN f_d_compile(v3)
                              ELSE f_d_interpret(v3), fuel - 1))))

InitAgree ==
    /\ \E booted \in {cold_start} : \E t \in AgreeBodies : \E d \in 0..MaxStack :
       \E vm \in {f_query(setup_stack(booted, AgreeStack(d)), DefLine(t))} :
          Booted(vm, {FALSE})
    /\ ctl = "eval"

\* f_query given a typed line, once the definition is closed: the tokens
\* of its body, or its name.  completed keeps what was typed and the data
\* stack it was typed over.
type_line ==
    /\ ctl = "quit"
    /\ Len(completed) = 1
    /\ \E t \in AgreeBodies : \E compiled \in BOOLEAN :
         /\ TibText = DefLine(t)
         /\ \E r \in {f_query(Machine, IF compiled THEN Line(<< W_w >>) ELSE Line(t))} :
               /\ Commit(r)
               /\ ctl' = AfterPanic(r, "eval")
         /\ completed' = Append(completed, [body |-> t, compiled |-> compiled,
                                            cells |-> DataStack])
         /\ last' = [NoStep EXCEPT !.act = "type_line", !.sp = stack_ptr]
    /\ UNCHANGED << idefs, nlines, reaborted, aborted_defs >>

NextAgree == f_eval \/ type_line \/ i_definition

SpecAgree == InitAgree /\ [][NextAgree]_vars

\* the typed line has been evaluated to its end, or the machine stopped
AgreeDone == Len(completed) = 2 /\ (ctl = "quit" \/ panic # "none")

\* the machine left by interpreting the body's tokens over the stack given
Interpreted ==
    f_eval_line(f_query(setup_stack(reset(Machine), completed[2].cells),
                        Line(completed[2].body)), BUF_SIZE)

\* C39: when interpreting the tokens over the given stack ends without a
\* panic and without a message (the stack is deep enough), both typing the
\* tokens and typing the word compiled from them end with the data stack
\* the interpretation leaves and with an empty return stack
C39_CompiledAgreesWithInterpreted ==
    AgreeDone =>
       \A e \in {Interpreted} :
          (Ok(e) /\ e.msg = {}) =>
             /\ panic = "none"
             /\ e.return_ptr = RET_START
             /\ return_ptr = RET_START
             /\ stack_ptr = e.stack_ptr
             /\ DataStack = [i \in 1..stack_len(e) |-> e.heap[STACK_START - i]]

\* `: w dup * ;` then `w` over a stack whose top is 4 ends with 16 on top
C39_Witness ==
    /\ AgreeDone
    /\ panic = "none"
    /\ completed[2].compiled
    /\ completed[2].body = << W_dup, W_times >>
    /\ Len(completed[2].cells) = 3
    /\ DataStack = << 2, 0 - 3, 16 >>
    /\ last.act = "f_eval"

\* ------------------------------------------------------------------------
\* Termination of the inner interpreter.  The line typed defines w, then k
\* whose body calls w, and runs k over a data stack.
TailTokens == { Num(7), W_plus }
NestedLine(t1, t2) ==
    Line(<< W_colon, W_w >> \o t1 \o << W_semicolon, W_colon, W_k, W_w, t2,
            W_semicolon, W_k >>)

InitTerminate ==
    /\ \E booted \in {cold_start} : \E t1 \in AgreeBodies : \E t2 \in TailTokens :
       \E d \in 0..MaxStack :
       \E vm \in {f_query(setup_stack(booted, AgreeStack(d)), NestedLine(t1, t2))} :
          Booted(vm, {FALSE})
    /\ ctl = "eval"

NextTerminate == f_eval \/ i_definition

SpecTerminate == InitTerminate /\ [][NextTerminate]_vars

\* i_definition is a loop of a sequential program: once entered, its next
\* turn is taken
LiveTerminate == SpecTerminate /\ WF_vars(i_definition)

\* the turn of i_definition that returned found pc = 0 with the abort flag
\* clear, and left the return stack pointer at RET_START
ReturnedAtSentinel ==
    /\ last.act = "i_definition"
    /\ ~last.cell
    /\ ~last.flag
    /\ idefs = << >>
    /\ panic = "none"
    /\ return_ptr = RET_START

\* C40: once a definition made of literals, arithmetic and stack builtins
\* and calls of earlier definitions is entered, i_definition eventually
\* finds the no-caller 0 in pc and returns with the return stack pointer
\* at RET_START
C40_DefinitionReachesSentinel == (ctl = "idef") ~> ReturnedAtSentinel

=============================================================================
